---------------------------- MODULE Spec2Model ----------------------------
(***************************************************************************)
(* A state-machine model of the bytecode interpreter of kazzmir/jvm        *)
(* (src/src/jvm/exec.rs, with the constant-pool and descriptor helpers of  *)
(* src/src/jvm/data.rs).                                                   *)
(*                                                                         *)
(* One step of the model is one iteration of the dispatch loop of          *)
(* do_execute_method: the handler of the opcode at pc of the innermost     *)
(* frame, whole.  The Rust recursion of do_execute_method through the      *)
(* invoke_* functions is the sequence `frames`; an invoke handler that     *)
(* reaches a bytecode method pushes a frame, and the return handlers pop   *)
(* it and finish the caller's invoke arm (push of the result, pc += 3).    *)
(*                                                                         *)
(* Number representation.  TLC integers are 32 bits wide, so               *)
(*   - a usize at or above 2^63 (the result of casting a negative i16 or   *)
(*     i32 to usize) is represented by the negative number it was cast     *)
(*     from; the loop test pc < code.len() is therefore written            *)
(*     0 <= pc /\ pc < Len(code);                                          *)
(*   - a u32 read by make_int32 is kept as its two big-endian 16-bit       *)
(*     halves <<hi, lo>>, and the casts (as i64, as i32) and comparisons   *)
(*     the code applies to it are operators on that pair.                  *)
(* The payload of Int is an i64 in the code; the programs enumerated here  *)
(* keep every payload far inside that range, so payload arithmetic is the  *)
(* mathematical one.                                                       *)
(***************************************************************************)
EXTENDS Integers, Sequences, FiniteSets, TLC

\* ------------------------------------------------------------------------
\* Opcodes (mod opcodes)
\* ------------------------------------------------------------------------
ICONST0 == 3
ICONST1 == 4
ICONST2 == 5
ICONST3 == 6
ICONST4 == 7
ICONST5 == 8
PUSHBYTE == 16
PUSHRUNTIMECONSTANT == 18
ILOAD == 21
ILOAD0 == 26
ILOAD1 == 27
ILOAD2 == 28
ILOAD3 == 29
ALOAD0 == 42
ALOAD1 == 43
ISTORE == 54
ISTORE0 == 59
ISTORE1 == 60
ISTORE2 == 61
ISTORE3 == 62
ASTORE1 == 76
DUP == 89
IADD == 96
IMUL == 104
IDIV == 108
IINC == 132
TABLESWITCH == 170
IFICOMPAREGREATEREQUAL == 162
GOTO == 167
IRETURN == 172
RETURN == 177
GETSTATIC == 178
GETFIELD == 180
PUTFIELD == 181
INVOKEVIRTUAL == 182
INVOKESPECIAL == 183
INVOKESTATIC == 184
\* `NEW` is a reserved word of TLA+.
OP_NEW == 187

\* ------------------------------------------------------------------------
\* Runtime values (enum RuntimeValue).  One record shape for every variant:
\* t is the tag, i the payload of Int or the handle of Object, s the text
\* of String.
\* ------------------------------------------------------------------------
IntV(n) == [t |-> "Int", i |-> n, s |-> ""]
VoidV == [t |-> "Void", i |-> 0, s |-> ""]
StringV(x) == [t |-> "String", i |-> 0, s |-> x]
ObjectV(h) == [t |-> "Object", i |-> h, s |-> ""]

\* ------------------------------------------------------------------------
\* Constant pool entries (enum ConstantPoolEntry).  a and b are the one or
\* two u16 indices of the variant, s the text of Utf8.
\* ------------------------------------------------------------------------
Utf8(x) == [tag |-> "Utf8", a |-> 0, b |-> 0, s |-> x]
Classref(n) == [tag |-> "Classref", a |-> n, b |-> 0, s |-> ""]
Methodref(c, nt) == [tag |-> "Methodref", a |-> c, b |-> nt, s |-> ""]
Fieldref(c, nt) == [tag |-> "Fieldref", a |-> c, b |-> nt, s |-> ""]
NameAndType(n, d) == [tag |-> "NameAndType", a |-> n, b |-> d, s |-> ""]
Stringref(n) == [tag |-> "Stringref", a |-> n, b |-> 0, s |-> ""]
NoEntry == [tag |-> "None", a |-> 0, b |-> 0, s |-> ""]

\* constant_pool_lookup: the entry at 1-based index, NoEntry for None.
constant_pool_lookup_zero_based(pool, index) ==
    IF index >= 0 /\ index < Len(pool) THEN pool[index + 1] ELSE NoEntry

constant_pool_lookup(pool, index) ==
    IF index >= 1 /\ index <= Len(pool) THEN pool[index] ELSE NoEntry

\* lookup_utf8_constant: Some(text) exactly for a Utf8 entry.
lookup_utf8_constant(pool, index) ==
    LET e == constant_pool_lookup(pool, index)
    IN  IF e.tag = "Utf8" THEN [some |-> TRUE, s |-> e.s]
                          ELSE [some |-> FALSE, s |-> ""]

\* ------------------------------------------------------------------------
\* Descriptor parser (data.rs).  A descriptor text is consumed as the
\* sequence of its characters (std::str::Chars); chars gives that sequence
\* for the texts the enumerated class files hold.  A Descriptor is a tuple:
\* <<"Int">>, ..., <<"Object", name>>, <<"Array", element>>.
\* ------------------------------------------------------------------------
chars(text) ==
    CASE text = "()V" -> << "(", ")", "V" >>
      [] text = "(I)V" -> << "(", "I", ")", "V" >>
      [] text = "(I)I" -> << "(", "I", ")", "I" >>
      [] text = "(II)I" -> << "(", "I", "I", ")", "I" >>
      [] text = "(II)V" -> << "(", "I", "I", ")", "V" >>
      [] text = "()I" -> << "(", ")", "I" >>
      [] text = "([I[[JLa;)V" ->
            << "(", "[", "I", "[", "[", "J", "L", "a", ";", ")", "V" >>
      [] text = "(Ljava/lang/String;)V" ->
            << "(", "L", "j", "a", "v", "a", "/", "l", "a", "n", "g", "/",
               "S", "t", "r", "i", "n", "g", ";", ")", "V" >>
      [] text = "([V)V" -> << "(", "[", "V", ")", "V" >>
      [] text = "(I" -> << "(", "I" >>
      [] text = "I" -> << "I" >>
      [] text = "(La)V" -> << "(", "L", "a", ")", "V" >>
      [] OTHER -> << >>

Primitive(c) ==
    CASE c = "B" -> "Byte" [] c = "C" -> "Char" [] c = "D" -> "Double"
      [] c = "F" -> "Float" [] c = "I" -> "Int" [] c = "J" -> "Long"
      [] c = "S" -> "Short" [] c = "Z" -> "Boolean" [] c = "V" -> "Void"
      [] OTHER -> ""

\* the({ e(x) : x \in { v } }) is e(v), with v computed once however often
\* e refers to x.
the(S) == CHOOSE x \in S : TRUE

\* The loop of the 'L' arm: push characters up to the first ';'.
RECURSIVE read_class_name(_, _)
read_class_name(d, name) ==
    IF d = << >> THEN [ok |-> FALSE, desc |-> << >>, rest |-> << >>]
    ELSE IF Head(d) = ";"
         THEN [ok |-> TRUE, desc |-> << "Object", name >>, rest |-> Tail(d)]
         ELSE read_class_name(Tail(d), Append(name, Head(d)))

\* parse_field_descriptor: [ok, desc, rest]; rest is what the iterator
\* still holds afterwards.
RECURSIVE parse_field_descriptor(_)
parse_field_descriptor(d) ==
    IF d = << >> THEN [ok |-> FALSE, desc |-> << >>, rest |-> << >>]
    ELSE IF Primitive(Head(d)) # ""
         THEN [ok |-> TRUE, desc |-> << Primitive(Head(d)) >>, rest |-> Tail(d)]
    ELSE IF Head(d) = "L" THEN read_class_name(Tail(d), << >>)
    ELSE IF Head(d) = "["
         THEN LET e == parse_field_descriptor(Tail(d))
              IN  IF ~e.ok THEN e
                  ELSE IF e.desc = << "Void" >>
                       THEN [ok |-> FALSE, desc |-> << >>, rest |-> e.rest]
                       ELSE [ok |-> TRUE, desc |-> << "Array", e.desc >>,
                             rest |-> e.rest]
    ELSE [ok |-> FALSE, desc |-> << >>, rest |-> << >>]

\* The while loop of parse_method_descriptor: parameters up to ')'.
RECURSIVE parse_parameters(_, _)
parse_parameters_last_only(d, parameters) ==
    IF d # << >> /\ Head(d) = ")"
    THEN [ok |-> TRUE, parameters |-> parameters, rest |-> d]
    ELSE the({ IF ~p.ok THEN [ok |-> FALSE, parameters |-> << >>, rest |-> << >>]
               ELSE parse_parameters(p.rest, << p.desc >>) :
               p \in { parse_field_descriptor(d) } })

parse_parameters(d, parameters) ==
    IF d # << >> /\ Head(d) = ")"
    THEN [ok |-> TRUE, parameters |-> parameters, rest |-> d]
    ELSE the({ IF ~p.ok THEN [ok |-> FALSE, parameters |-> << >>, rest |-> << >>]
               ELSE parse_parameters(p.rest, Append(parameters, p.desc)) :
               p \in { parse_field_descriptor(d) } })

\* parse_method_descriptor from `descriptor.chars().peekable()` on, d the
\* characters: [ok, parameters, return_type].
parse_method_chars(d) ==
    LET bad == [ok |-> FALSE, parameters |-> << >>, return_type |-> << >>]
    IN  IF d = << >> \/ Head(d) # "(" THEN bad
        ELSE the({ IF ~ps.ok THEN bad
                   ELSE LET r == parse_field_descriptor(Tail(ps.rest))
                        IN  IF ~r.ok THEN bad
                            ELSE [ok |-> TRUE, parameters |-> ps.parameters,
                                  return_type |-> r.desc] :
                   ps \in { parse_parameters(Tail(d), << >>) } })

parse_method_descriptor(text) == parse_method_chars(chars(text))

\* ------------------------------------------------------------------------
\* Fixed-width helpers
\* ------------------------------------------------------------------------
\* make_int16: the u16 of two big-endian bytes.
make_int16(byte1, byte2) == byte1 * 256 + byte2

\* `x as i16` of a u16 or of a usize: the low 16 bits, read as signed.
as_i16(x) ==
    LET m == x % 65536 IN IF m >= 32768 THEN m - 65536 ELSE m

\* make_int32: the u32 of four big-endian bytes, as its two 16-bit halves.
make_int32(byte1, byte2, byte3, byte4) ==
    << byte1 * 256 + byte2, byte3 * 256 + byte4 >>

\* `w as i32` of a u32: the same 32 bits read as signed.
as_i32(w) == (IF w[1] >= 32768 THEN w[1] - 65536 ELSE w[1]) * 65536 + w[2]

\* `w as i64` of a u32 is zero-extended, so it is w's unsigned value; it
\* exceeds every Int payload of the model when its top bit is set.
u32_is_big(w) == w[1] >= 32768
u32_small(w) == w[1] * 65536 + w[2]
\* i < (w as i64) and i > (w as i64)
i64_lt_u32(i, w) == u32_is_big(w) \/ i < u32_small(w)
i64_gt_u32(i, w) == ~u32_is_big(w) /\ i > u32_small(w)
\* low <= high on two such values
u32_le(low, high) ==
    low[1] < high[1] \/ (low[1] = high[1] /\ low[2] <= high[2])

\* Rust's integer division truncates toward zero.
trunc_div(i1, i2) ==
    LET a1 == IF i1 < 0 THEN -i1 ELSE i1
        a2 == IF i2 < 0 THEN -i2 ELSE i2
    IN  IF (i1 < 0) = (i2 < 0) THEN a1 \div a2 ELSE -(a1 \div a2)

\* ------------------------------------------------------------------------
\* Class files: the inputs.  A JVMClassFile is reduced to the three fields
\* the interpreter reads (constant_pool, this_class, methods); a MethodInfo
\* to its name and descriptor indices and its Code attribute (has_code says
\* whether lookup_code_attribute finds one).
\* ------------------------------------------------------------------------
MethodInfo(name_index, descriptor_index, max_stack, max_locals, bytecode) ==
    [name_index |-> name_index, descriptor_index |-> descriptor_index,
     has_code |-> TRUE, max_stack |-> max_stack, max_locals |-> max_locals,
     code |-> bytecode]

\* The constant pool shared by the enumerated class files.
Pool ==
    << Utf8("Main"),                \*  1
       Classref(1),                 \*  2  Main
       Utf8("java/lang/Object"),    \*  3
       Classref(3),                 \*  4  java/lang/Object
       Utf8("<init>"),              \*  5
       Utf8("()V"),                 \*  6
       NameAndType(5, 6),           \*  7  <init> ()V
       Methodref(4, 7),             \*  8  java/lang/Object.<init> ()V
       Utf8("java/lang/System"),    \*  9
       Classref(9),                 \* 10  java/lang/System
       Utf8("out"),                 \* 11
       Utf8("Ljava/io/PrintStream;"),  \* 12
       NameAndType(11, 12),         \* 13
       Fieldref(10, 13),            \* 14  java/lang/System.out
       Utf8("java/io/PrintStream"), \* 15
       Classref(15),                \* 16  java/io/PrintStream
       Utf8("println"),             \* 17
       Utf8("(I)V"),                \* 18
       NameAndType(17, 18),         \* 19  println (I)V
       Methodref(16, 19),           \* 20  java/io/PrintStream.println (I)V
       Utf8("main"),                \* 21
       Utf8("f"),                   \* 22
       Utf8("(II)I"),               \* 23
       NameAndType(22, 23),         \* 24  f (II)I
       Methodref(2, 24),            \* 25  Main.f (II)I
       Utf8("x"),                   \* 26
       Utf8("I"),                   \* 27
       NameAndType(26, 27),         \* 28  x I
       Fieldref(2, 28),             \* 29  Main.x
       Utf8("g"),                   \* 30
       NameAndType(30, 18),         \* 31  g (I)V
       Methodref(2, 31),            \* 32  Main.g (I)V
       Utf8("h"),                   \* 33
       NameAndType(33, 6),          \* 34  h ()V
       Methodref(2, 34),            \* 35  Main.h ()V
       NameAndType(5, 18),          \* 36  <init> (I)V
       Methodref(2, 36),            \* 37  Main.<init> (I)V
       Methodref(16, 31),           \* 38  java/io/PrintStream.g (I)V
       Utf8("hello"),               \* 39
       Stringref(39),               \* 40  "hello"
       Utf8("Missing"),             \* 41
       Classref(41),                \* 42  Missing, a class nobody registers
       Fieldref(42, 13),            \* 43  Missing.out
       Fieldref(10, 28),            \* 44  java/lang/System.x
       Methodref(42, 34),           \* 45  Missing.h ()V
       Stringref(39) >>             \* 46  "hello", the last entry

JVMClassFile(methods) ==
    [constant_pool |-> Pool, this_class |-> 2, methods |-> methods]

\* Big-endian encodings used to lay out operands.
U16(n) == << n \div 256, n % 256 >>
S16(n) == IF n < 0 THEN U16(n + 65536) ELSE U16(n)
S32(n) == IF n < 0 THEN << 255, 255 >> \o U16(n + 65536)
                   ELSE << 0, 0 >> \o U16(n)

\* main alone: max_stack 4, max_locals 4.
MainOnly(bytecode) == JVMClassFile(<< MethodInfo(21, 6, 4, 4, bytecode) >>)

\* ------------------------------------------------------------------------
\* The class-file decoder (data.rs).  B is the sequence of the file's bytes.
\* A reader is [pos, end]: pos bytes have been consumed, and the reader
\* gives out no byte at or past end (a `take` lowers end; the file itself
\* ends at Len(B)).  Every read returns [kind, r, v, msg]: kind is "ok",
\* "err" (an Err value) or "panic" (read_exact(..).unwrap() at the end of
\* the bytes), r the reader afterwards, v the value read.
\* ------------------------------------------------------------------------
Avail(B, r) == (IF r.end < Len(B) THEN r.end ELSE Len(B)) - r.pos
Read(r, v) == [kind |-> "ok", r |-> r, v |-> v, msg |-> ""]
ReadErr(r, msg) == [kind |-> "err", r |-> r, v |-> << >>, msg |-> msg]
ReadPanic(r) == [kind |-> "panic", r |-> r, v |-> << >>, msg |-> "unwrap"]
Skip(r, n) == [r EXCEPT !.pos = @ + n]

read_u8(B, r) ==
    IF Avail(B, r) < 1 THEN ReadPanic(r) ELSE Read(Skip(r, 1), B[r.pos + 1])

read_u16_bigendian(B, r) ==
    IF Avail(B, r) < 2 THEN ReadPanic(r)
    ELSE Read(Skip(r, 2), B[r.pos + 1] * 256 + B[r.pos + 2])

\* A u32 is the pair of its 16-bit halves, high half first.
read_u32_bigendian(B, r) ==
    IF Avail(B, r) < 4 THEN ReadPanic(r)
    ELSE Read(Skip(r, 4), << B[r.pos + 1] * 256 + B[r.pos + 2],
                             B[r.pos + 3] * 256 + B[r.pos + 4] >>)

\* Read::take(length): a reader over the same bytes that ends `length`
\* further on, or where r ends if that is sooner.
take(r, length) ==
    [pos |-> r.pos,
     end |-> IF length[1] > 0 \/ r.pos + length[2] > r.end THEN r.end
             ELSE r.pos + length[2]]

\* bytes().collect() and bytes().for_each(drop): everything left is read.
rest(B, r) == Skip(r, IF Avail(B, r) > 0 THEN Avail(B, r) ELSE 0)

\* Reads in sequence.  s is what has been read so far: its v the values, in
\* the order read; a read that fails is what the whole sequence returns.
push(s, x) == IF x.kind # "ok" THEN x ELSE Read(x.r, Append(s.v, x.v))
prepend(v, x) == IF x.kind # "ok" THEN x ELSE Read(x.r, << v >> \o x.v)
then_u16(B, s) == IF s.kind # "ok" THEN s ELSE push(s, read_u16_bigendian(B, s.r))
then_u32(B, s) == IF s.kind # "ok" THEN s ELSE push(s, read_u32_bigendian(B, s.r))
\* A read of a u16 after x, whose value is dropped.
u16_after(B, x) == IF x.kind # "ok" THEN x ELSE read_u16_bigendian(B, x.r)

read_verification_type_info(B, r) ==
    LET kind == read_u8(B, r)
    IN  IF kind.kind # "ok" THEN kind
        ELSE IF kind.v <= 6 THEN Read(kind.r, << >>)
        ELSE IF kind.v \in {7, 8} THEN read_u16_bigendian(B, kind.r)
        ELSE ReadErr(kind.r, "unknown verification type")

RECURSIVE read_verification_types(_, _, _)
more_verification_types(B, one, n) ==
    IF one.kind # "ok" THEN one ELSE read_verification_types(B, one.r, n - 1)
read_verification_types(B, r, n) ==
    IF n = 0 THEN Read(r, << >>)
    ELSE more_verification_types(B, read_verification_type_info(B, r), n)
\* A u16 count, just read, and that many verification types.
counted_verification_types(B, count) ==
    IF count.kind # "ok" THEN count
    ELSE read_verification_types(B, count.r, count.v)

read_stackmap_frame(B, r) ==
    LET kind == read_u8(B, r)
        offset_delta == u16_after(B, kind)
        number_of_locals == u16_after(B, offset_delta)
        locals == counted_verification_types(B, number_of_locals)
        number_of_stack_items == u16_after(B, locals)
    IN  IF kind.kind # "ok" THEN kind
        ELSE IF kind.v <= 63 THEN Read(kind.r, << >>)
        ELSE IF kind.v <= 127 THEN read_verification_type_info(B, kind.r)
        ELSE IF kind.v <= 246 THEN Read(kind.r, << >>)
        ELSE IF kind.v = 247
        THEN IF offset_delta.kind # "ok" THEN offset_delta
             ELSE read_verification_type_info(B, offset_delta.r)
        ELSE IF kind.v <= 251 THEN offset_delta
        ELSE IF kind.v <= 254
        THEN IF offset_delta.kind # "ok" THEN offset_delta
             ELSE read_verification_types(B, offset_delta.r, kind.v - 251)
        ELSE counted_verification_types(B, number_of_stack_items)

RECURSIVE read_stackmap_frames(_, _, _)
more_stackmap_frames(B, one, n) ==
    IF one.kind # "ok" THEN one ELSE read_stackmap_frames(B, one.r, n - 1)
read_stackmap_frames(B, r, n) ==
    IF n = 0 THEN Read(r, << >>)
    ELSE more_stackmap_frames(B, read_stackmap_frame(B, r), n)

\* n records of `size` bytes read field by field with read_u16_bigendian
\* (read_exception: 8 bytes; a line number entry: 4; an interface: 2): they
\* are all there, or one of the reads panics.
read_records(B, r, n, size) ==
    IF Avail(B, r) < n * size THEN ReadPanic(r) ELSE Read(Skip(r, n * size), << >>)
\* A u16 count and that many records.
then_records(B, size, s) ==
    IF s.kind # "ok" THEN s
    ELSE LET count == read_u16_bigendian(B, s.r)
         IN  IF count.kind # "ok" THEN count
             ELSE push(s, read_records(B, count.r, count.v, size))

\* The attribute names read_attribute matches, as the bytes of their text.
NameCode == << 67, 111, 100, 101 >>
NameLineNumberTable ==
    << 76, 105, 110, 101, 78, 117, 109, 98, 101, 114, 84, 97, 98, 108, 101 >>
NameSourceFile == << 83, 111, 117, 114, 99, 101, 70, 105, 108, 101 >>
NameStackMapTable == << 83, 116, 97, 99, 107, 77, 97, 112, 84, 97, 98, 108, 101 >>

\* code_length and result.by_ref().take(code_length).bytes().collect(): the
\* bytes there are, up to code_length of them and to the end of `result`.
then_code(B, s) ==
    IF s.kind # "ok" THEN s
    ELSE LET code_length == read_u32_bigendian(B, s.r)
         IN  IF code_length.kind # "ok" THEN code_length
             ELSE LET from == code_length.r
                      to == rest(B, take(code_length.r, code_length.v))
                  IN  push(s, Read([from EXCEPT !.pos = to.pos],
                                   SubSeq(B, from.pos + 1, to.pos)))

\* `rest.len() > 0` after an attribute's body.
leftover(B, s) ==
    IF s.kind # "ok" THEN s
    ELSE IF Avail(B, s.r) > 0 THEN ReadErr(rest(B, s.r), "bytes left over")
    ELSE s

\* The AttributeKind built from what was read.
as_code(s) ==
    IF s.kind # "ok" THEN s
    ELSE Read(s.r, [kind |-> "Code", max_stack |-> s.v[1],
                    max_locals |-> s.v[2], code |-> s.v[3]])
as_kind(s, kind) == IF s.kind # "ok" THEN s ELSE Read(s.r, [kind |-> kind])

\* read_attribute and read_attributes.  The reader handed back is the
\* caller's: it stands where the `take` over the attribute's length stopped
\* reading.  v is the attribute: [kind] and, for Code, max_stack, max_locals
\* and code.
RECURSIVE read_attributes(_, _, _, _)
\* A u16 count and that many attributes.
then_attributes(B, constant_pool, s) ==
    IF s.kind # "ok" THEN s
    ELSE LET count == read_u16_bigendian(B, s.r)
         IN  IF count.kind # "ok" THEN count
             ELSE push(s, read_attributes(B, count.r, constant_pool, count.v))

\* The arms of the match on the attribute's name; result is file.take(length).
attribute_named(B, constant_pool, name, result) ==
    IF ~name.some THEN ReadErr(result, "unhandled name index")
    ELSE IF name.s = NameCode
    THEN as_code(leftover(B,
            then_attributes(B, constant_pool,
                then_records(B, 8,
                    then_code(B, then_u16(B, then_u16(B, Read(result, << >>))))))))
    ELSE IF name.s = NameLineNumberTable
    THEN as_kind(leftover(B, then_records(B, 4, Read(result, << >>))),
                 "LineNumberTable")
    ELSE IF name.s = NameSourceFile
    THEN Read(rest(B, result), [kind |-> "SourceFile"])
    ELSE IF name.s = NameStackMapTable
    THEN LET entry_count == read_u16_bigendian(B, result)
         IN  IF entry_count.kind # "ok" THEN entry_count
             ELSE as_kind(read_stackmap_frames(B, entry_count.r, entry_count.v),
                          "StackMapFrame")
    ELSE ReadErr(rest(B, result), "unknown attribute")

\* header holds name_index and length.
attribute_after(B, constant_pool, header) ==
    IF header.kind # "ok" THEN header
    ELSE attribute_named(B, constant_pool,
                         lookup_utf8_constant(constant_pool, header.v[1]),
                         take(header.r, header.v[2]))

hand_back(file_reader, x) == [x EXCEPT !.r = [file_reader EXCEPT !.pos = x.r.pos]]

read_attribute(B, file_reader, constant_pool) ==
    hand_back(file_reader,
              attribute_after(B, constant_pool,
                              then_u32(B, then_u16(B, Read(file_reader, << >>)))))

more_attributes(B, constant_pool, count, one) ==
    IF one.kind # "ok" THEN one
    ELSE prepend(one.v, read_attributes(B, one.r, constant_pool, count - 1))

read_attributes(B, reader, constant_pool, count) ==
    IF count = 0 THEN Read(reader, << >>)
    ELSE more_attributes(B, constant_pool, count,
                         read_attribute(B, reader, constant_pool))

\* String::from_utf8: whether the bytes from the i-th on are well-formed
\* UTF-8 (no overlong forms, no surrogates, nothing above U+10FFFF).
RECURSIVE valid_utf8(_, _)
valid_utf8(bytes, i) ==
    LET n == Len(bytes) - i + 1
        b == bytes[i]
        cont(k) == k <= Len(bytes) /\ bytes[k] >= 128 /\ bytes[k] <= 191
        within(k, lo, hi) == k <= Len(bytes) /\ bytes[k] >= lo /\ bytes[k] <= hi
    IN  IF n <= 0 THEN TRUE
        ELSE IF b < 128 THEN valid_utf8(bytes, i + 1)
        ELSE IF b >= 194 /\ b <= 223
        THEN cont(i + 1) /\ valid_utf8(bytes, i + 2)
        ELSE IF b >= 224 /\ b <= 239
        THEN /\ within(i + 1, IF b = 224 THEN 160 ELSE 128,
                              IF b = 237 THEN 159 ELSE 191)
             /\ cont(i + 2)
             /\ valid_utf8(bytes, i + 3)
        ELSE IF b >= 240 /\ b <= 244
        THEN /\ within(i + 1, IF b = 240 THEN 144 ELSE 128,
                              IF b = 244 THEN 143 ELSE 191)
             /\ cont(i + 2)
             /\ cont(i + 3)
             /\ valid_utf8(bytes, i + 4)
        ELSE FALSE

\* One turn of the constant-pool loop of parse_class_file: the entry read.
\* A Utf8 entry holds the bytes of its text, as many as there are up to its
\* length.
read_constant(B, r) ==
    LET tag == read_u8(B, r)
        first == u16_after(B, tag)
        second == u16_after(B, first)
        text_reader == rest(B, take(first.r, << 0, first.v >>))
        text == SubSeq(B, first.r.pos + 1, text_reader.pos)
    IN  IF tag.kind # "ok" THEN tag
        ELSE IF tag.v \notin {1, 7, 8, 9, 10, 12}
        THEN ReadErr(tag.r, "Unhandled constant tag")
        ELSE IF first.kind # "ok" THEN first
        ELSE IF tag.v = 7 THEN Read(first.r, Classref(first.v))
        ELSE IF tag.v = 8 THEN Read(first.r, Stringref(first.v))
        ELSE IF tag.v = 1
        THEN IF valid_utf8(text, 1)
             THEN Read([first.r EXCEPT !.pos = text_reader.pos], Utf8(text))
             ELSE ReadErr(first.r, "invalid utf-8 sequence")
        ELSE IF second.kind # "ok" THEN second
        ELSE IF tag.v = 10 THEN Read(second.r, Methodref(first.v, second.v))
        ELSE IF tag.v = 9 THEN Read(second.r, Fieldref(first.v, second.v))
        ELSE Read(second.r, NameAndType(first.v, second.v))

\* The constant-pool loop: n entries still to read.
RECURSIVE read_constants(_, _, _)
more_constants(B, n, one) ==
    IF one.kind # "ok" THEN one
    ELSE prepend(one.v, read_constants(B, one.r, n - 1))
read_constants(B, r, n) ==
    IF n = 0 THEN Read(r, << >>) ELSE more_constants(B, n, read_constant(B, r))

\* read_field, and one turn of the loop over methods in parse_class_file,
\* which reads the same four u16 and the attributes.
read_member(B, r, constant_pool) ==
    LET member == then_attributes(B, constant_pool,
                      then_u16(B, then_u16(B, then_u16(B, Read(r, << >>)))))
    IN  IF member.kind # "ok" THEN member
        ELSE Read(member.r, [name_index |-> member.v[2],
                             descriptor_index |-> member.v[3],
                             attributes |-> member.v[4]])

RECURSIVE read_members(_, _, _, _)
more_members(B, constant_pool, n, one) ==
    IF one.kind # "ok" THEN one
    ELSE prepend(one.v, read_members(B, one.r, constant_pool, n - 1))
read_members(B, r, constant_pool, n) ==
    IF n = 0 THEN Read(r, << >>)
    ELSE more_members(B, constant_pool, n, read_member(B, r, constant_pool))

\* `0..constant_pool_count - 1`: how many entries the loop reads, the u16
\* subtraction wrapping where it does not panic.
constant_pool_entries_all(constant_pool_count) == constant_pool_count

constant_pool_entries(constant_pool_count) ==
    (constant_pool_count + 65535) % 65536

\* The steps of parse_class_file.  s.v is, in order: magic, minor_version,
\* major_version, constant_pool_count, constant_pool, access_flags,
\* this_class, super_class, interfaces, fields, methods, attributes.
then_magic(B, s) ==
    LET magic == then_u32(B, s)
    IN  IF magic.kind # "ok" THEN magic
        ELSE IF magic.v[1] # << 51966, 47806 >>
        THEN ReadErr(magic.r, "Not a class file")
        ELSE magic
then_constants(B, checked, s) ==
    IF s.kind # "ok" THEN s
    ELSE IF s.v[4] = 0 /\ checked THEN ReadPanic(s.r)
    ELSE push(s, read_constants(B, s.r, constant_pool_entries(s.v[4])))
then_members(B, s) ==
    IF s.kind # "ok" THEN s
    ELSE LET count == read_u16_bigendian(B, s.r)
         IN  IF count.kind # "ok" THEN count
             ELSE push(s, read_members(B, count.r, s.v[5], count.v))
then_class_attributes(B, s) ==
    IF s.kind # "ok" THEN s ELSE then_attributes(B, s.v[5], s)
as_class(s) ==
    IF s.kind # "ok" THEN s
    ELSE Read(s.r, [constant_pool |-> s.v[5],
                    this_class |-> s.v[7],
                    fields |-> s.v[10],
                    methods |-> s.v[11],
                    attributes |-> s.v[12]])

\* parse_class_file on a file that opens and holds the bytes B.  checked
\* says whether the build panics on integer overflow.
parse_class_file(B, checked) ==
    as_class(
      then_class_attributes(B,
        then_members(B,
          then_members(B,
            then_records(B, 2,
              then_u16(B, then_u16(B, then_u16(B,
                then_constants(B, checked,
                  then_u16(B, then_u16(B, then_u16(B,
                    then_magic(B, Read([pos |-> 0, end |-> Len(B)], << >>))
                  )))
                )
              )))
            )
          )
        )
      )
    )

\* ------------------------------------------------------------------------
\* State
\* ------------------------------------------------------------------------
VARIABLES
    file,             \* the input of a decoder run on its own, << >> otherwise
    jvm,              \* the decoded class file handed to execute_method
    overflow_checks,  \* the build: TRUE when integer overflow panics (debug)
    runtime,          \* RuntimeConst.classes: class name -> JVMClass
    heap,             \* the JVMObjects; an Object handle is an index into it
    frames,           \* the activations of do_execute_method, innermost last
    stdout,           \* the lines println has written
    result,           \* what execute_method has returned, once it has
    last,             \* history: the opcode dispatched by the latest step
    written,          \* history: <<handle, field>> -> the value last put there
    exit,             \* the class runner's end: exit status and diagnostic
    run,              \* 0: one run; 1, 2: the first, second of two runs
    trace             \* history: the states of the first of two runs

vars == << file, jvm, overflow_checks, runtime, heap, frames, stdout, result, last,
          written, exit, run, trace >>

\* The method name the class runner asks for (main.rs).
EntryName == "main"

\* HashMap as a function on its key set.
EmptyMap == [k \in {} |-> VoidV]
MapPut(m, k, v) == [x \in DOMAIN m \cup {k} |-> IF x = k THEN v ELSE m[x]]

Native(name) == [kind |-> "Native", native |-> name, index |-> 0]
Bytecode(i) == [kind |-> "Bytecode", native |-> "", index |-> i]

\* JVMClass
JVMClass(class, methods, fields) ==
    [class |-> class, methods |-> methods, fields |-> fields]

\* JVMObject; create_object gives one with no fields.
JVMObject(class, fields) == [class |-> class, fields |-> fields]
create_object(class) == JVMObject(class.class, EmptyMap)

\* create_stdout_object: the object System.out is bound to; it is the first
\* object allocated, so its handle is 1.
create_stdout_object == JVMObject("java/io/PrintStream", EmptyMap)
StdoutHandle == 1

create_java_io_print_stream ==
    JVMClass("java/io/PrintStream", MapPut(EmptyMap, "println", Native("println")),
             EmptyMap)

create_java_lang_system ==
    JVMClass("java/lang/System", EmptyMap,
             MapPut(EmptyMap, "out", ObjectV(StdoutHandle)))

create_java_lang_object ==
    JVMClass("java/lang/Object", MapPut(EmptyMap, "<init>", Native("<init>")),
             EmptyMap)

create_runtime_const ==
    MapPut(MapPut(MapPut(EmptyMap,
        "java/lang/System", create_java_lang_system),
        "java/io/PrintStream", create_java_io_print_stream),
        "java/lang/Object", create_java_lang_object)

\* RuntimeConst::add_class
add_class(classes, jvm_class) == MapPut(classes, jvm_class.class, jvm_class)

\* The native callables: the lines written and the value returned for the
\* argument slice args.
\* A line of output is [s, digits]: the text of a string printed verbatim,
\* or the decimal digits an integer is formatted to.
Digit(d) ==
    CASE d = 0 -> "0" [] d = 1 -> "1" [] d = 2 -> "2" [] d = 3 -> "3"
      [] d = 4 -> "4" [] d = 5 -> "5" [] d = 6 -> "6" [] d = 7 -> "7"
      [] d = 8 -> "8" [] d = 9 -> "9"

RECURSIVE decimal(_)
decimal(n) ==
    IF n < 0 THEN << "-" >> \o decimal(-n)
    ELSE IF n < 10 THEN << Digit(n) >>
    ELSE Append(decimal(n \div 10), Digit(n % 10))

println_line(arg) ==
    IF arg.t = "String" THEN [s |-> arg.s, digits |-> << >>]
    ELSE IF arg.t = "Int" THEN [s |-> "", digits |-> decimal(arg.i)]
    ELSE [s |-> "Unknown value type for println", digits |-> << >>]

\* [panic, lines, value].  println takes &args[1..], which panics on an
\* empty slice.
call_native(name, args) ==
    IF name = "println"
    THEN IF args = << >>
         THEN [panic |-> TRUE, lines |-> << >>, value |-> VoidV]
         ELSE [panic |-> FALSE,
               lines |-> [k \in 1..(Len(args) - 1) |-> println_line(args[k + 1])],
               value |-> VoidV]
    ELSE [panic |-> FALSE, lines |-> << >>, value |-> VoidV]

\* create_jvm_class: [ok, class, msg].  A later method of the same name
\* replaces an earlier one in the table (HashMap::insert).
create_jvm_class(cf) ==
    LET pool == cf.constant_pool
        this == constant_pool_lookup(pool, cf.this_class)
        name == constant_pool_lookup(pool, this.a)
        n == Len(cf.methods)
        mname(i) == lookup_utf8_constant(pool, cf.methods[i].name_index)
        names == {mname(i).s : i \in 1..n}
        latest(s) == CHOOSE i \in 1..n :
                        /\ mname(i).s = s
                        /\ \A j \in 1..n : mname(j).s = s => j <= i
        bad(msg) == [ok |-> FALSE, class |-> JVMClass("", EmptyMap, EmptyMap),
                     msg |-> msg]
    IN  IF this.tag # "Classref" THEN bad("Invalid class reference")
        ELSE IF name.tag # "Utf8" THEN bad("Invalid name reference")
        ELSE IF \E i \in 1..n : ~mname(i).some
             THEN bad("no such method name at index")
        ELSE [ok |-> TRUE,
              class |-> JVMClass(name.s,
                                 [s \in names |-> Bytecode(latest(s))],
                                 EmptyMap),
              msg |-> ""]

\* create_frame: max_locals slots of Void and an empty stack.  method is
\* the index of the MethodInfo in jvm.methods, via the caller that made the
\* frame, pc the program counter of its run of do_execute_method.
Frame(method, via, stack, locals) ==
    [method |-> method, via |-> via, pc |-> 0, stack |-> stack, locals |-> locals]

create_frame(cf, method, via) ==
    Frame(method, via, << >>, [k \in 1..cf.methods[method].max_locals |-> VoidV])

\* Results of execute_method.
NoResult == [kind |-> "init", value |-> VoidV, msg |-> "", args |-> << >>]
Executing == [kind |-> "running", value |-> VoidV, msg |-> "", args |-> << >>]
OkResult(v) == [kind |-> "ok", value |-> v, msg |-> "", args |-> << >>]
ErrResult(msg, args) == [kind |-> "err", value |-> VoidV, msg |-> msg, args |-> args]
\* An abort of the process by a Rust panic (index out of bounds, division by
\* zero, arithmetic overflow in a build that checks it).
PanicResult(msg) == [kind |-> "panic", value |-> VoidV, msg |-> msg, args |-> << >>]

NoOp == [op |-> -1, pc |-> -1, depth |-> 0]

\* The process has not ended: no status, nothing printed by the runner.
NotExited == [status |-> -1, printed |-> << >>]

\* What a run shows in a state: each frame's pc, stack and locals, the
\* heap, the output, the result and the end of the process.
Snapshot == << frames, heap, stdout, result, exit >>

\* Of two runs of the same file the first is recorded state by state, and
\* the second goes along the record.
Record ==
    /\ run' = run
    /\ trace' = CASE run = 0 -> trace
                  [] run = 1 -> Append(trace, Snapshot)
                  [] run = 2 -> IF trace = << >> THEN trace ELSE Tail(trace)

\* ------------------------------------------------------------------------
\* The dispatch loop of do_execute_method
\* ------------------------------------------------------------------------
F == frames[Len(frames)]
code == jvm.methods[F.method].code
Running == result.kind = "running" /\ frames # << >>
\* while pc < code.len()
InCode == Running /\ 0 <= F.pc /\ F.pc < Len(code)
\* code[i]; HasByte(i) says the index is in bounds (else the read panics).
HasByte(i) == 0 <= i /\ i < Len(code)
CodeAt(i) == code[i + 1]
Op == CodeAt(F.pc)

\* locals[k] of the frame, 0-based; HasLocal(k) says the index is in bounds.
HasLocal(f, k) == k < Len(f.locals)
Local(f, k) == f.locals[k + 1]
SetLocal(f, k, v) == [f EXCEPT !.locals[k + 1] = v]

\* Frame::push_value, and the stack after one pop.
push_value(f, v) == [f EXCEPT !.stack = Append(@, v)]
Top(f) == f.stack[Len(f.stack)]
Popped(f) == [f EXCEPT !.stack = SubSeq(@, 1, Len(@) - 1)]
Advance(f, n) == [f EXCEPT !.pc = @ + n]

\* The three ways a step ends: the loop goes on with the frame changed to f,
\* an Err travels up through every caller's `?`, or the process aborts.
Continue(f) ==
    /\ frames' = [frames EXCEPT ![Len(frames)] = f]
    /\ result' = result

Fail_ends_one_frame(msg, args) ==
    /\ frames' = SubSeq(frames, 1, Len(frames) - 1)
    /\ result' = IF Len(frames) = 1 THEN ErrResult(msg, args) ELSE result

Fail(msg, args) ==
    /\ frames' = << >>
    /\ result' = ErrResult(msg, args)

Panic(msg) ==
    /\ frames' = << >>
    /\ result' = PanicResult(msg)

\* do_execute_method returns Ok(v): the top-level result, or the rest of the
\* caller's invoke arm (INVOKESTATIC and INVOKEVIRTUAL push v unless it is
\* Void, INVOKESPECIAL drops it; then pc += 3).
finish_invoke_pushes_void(caller, via, v) ==
    Advance(IF via = "invoke_special" THEN caller ELSE push_value(caller, v), 3)

finish_invoke(caller, via, v) ==
    Advance(IF via = "invoke_special" \/ v.t = "Void" THEN caller
            ELSE push_value(caller, v), 3)

Return(v) ==
    IF Len(frames) = 1
    THEN /\ frames' = << >>
         /\ result' = OkResult(v)
    ELSE /\ frames' = Append(SubSeq(frames, 1, Len(frames) - 2),
                             finish_invoke(frames[Len(frames) - 1], F.via, v))
         /\ result' = result

Dispatch_drops_statics(op) ==
    /\ InCode
    /\ Op = op
    /\ last' = [op |-> op, pc |-> F.pc, depth |-> Len(frames)]
    /\ runtime' = [c \in DOMAIN runtime |->
                      [runtime[c] EXCEPT !.fields = EmptyMap]]
    /\ UNCHANGED << file, jvm, overflow_checks, exit >>
    /\ Record

Dispatch(op) ==
    /\ InCode
    /\ Op = op
    /\ last' = [op |-> op, pc |-> F.pc, depth |-> Len(frames)]
    /\ UNCHANGED << file, jvm, overflow_checks, runtime, exit >>
    /\ Record

Pure == UNCHANGED << heap, stdout, written >>

\* execute_method: the first method named `name` is run in a fresh frame,
\* against the built-in classes plus the class of the file.
execute_method_any_named ==
    LET pool == jvm.constant_pool
        n == Len(jvm.methods)
        mname(i) == lookup_utf8_constant(pool, jvm.methods[i].name_index)
        named == {i \in 1..n : ~mname(i).some \/ mname(i).s = EntryName}
        class == create_jvm_class(jvm)
    IN  \E stop \in IF named = {} THEN {0} ELSE named :
        /\ result.kind = "init"
        /\ last' = NoOp
        /\ UNCHANGED << file, jvm, overflow_checks, stdout, written, exit >>
        /\ Record
        /\ IF stop = 0
           THEN /\ result' = ErrResult("no such method found", << >>)
                /\ UNCHANGED << frames, runtime, heap >>
           ELSE IF ~mname(stop).some
           THEN /\ result' = ErrResult("Error: method name index is invalid", << >>)
                /\ UNCHANGED << frames, runtime, heap >>
           ELSE IF ~jvm.methods[stop].has_code
           THEN /\ result' = ErrResult("no code attribute", << >>)
                /\ UNCHANGED << frames, runtime, heap >>
           ELSE IF ~class.ok
           THEN /\ result' = ErrResult(class.msg, << >>)
                /\ UNCHANGED << frames, runtime, heap >>
           ELSE /\ result' = Executing
                /\ runtime' = add_class(create_runtime_const, class.class)
                /\ heap' = << create_stdout_object >>
                /\ frames' = << create_frame(jvm, stop, "execute_method") >>

execute_method ==
    LET pool == jvm.constant_pool
        n == Len(jvm.methods)
        mname(i) == lookup_utf8_constant(pool, jvm.methods[i].name_index)
        \* the index at which the loop returns, 0 if it runs to the end
        stop == IF \E i \in 1..n : ~mname(i).some \/ mname(i).s = EntryName
                THEN CHOOSE i \in 1..n :
                        /\ ~mname(i).some \/ mname(i).s = EntryName
                        /\ \A j \in 1..(i - 1) :
                              mname(j).some /\ mname(j).s # EntryName
                ELSE 0
        class == create_jvm_class(jvm)
    IN  /\ result.kind = "init"
        /\ last' = NoOp
        /\ UNCHANGED << file, jvm, overflow_checks, stdout, written, exit >>
        /\ Record
        /\ IF stop = 0
           THEN /\ result' = ErrResult("no such method found", << >>)
                /\ UNCHANGED << frames, runtime, heap >>
           ELSE IF ~mname(stop).some
           THEN /\ result' = ErrResult("Error: method name index is invalid", << >>)
                /\ UNCHANGED << frames, runtime, heap >>
           ELSE IF ~jvm.methods[stop].has_code
           THEN /\ result' = ErrResult("no code attribute", << >>)
                /\ UNCHANGED << frames, runtime, heap >>
           ELSE IF ~class.ok
           THEN /\ result' = ErrResult(class.msg, << >>)
                /\ UNCHANGED << frames, runtime, heap >>
           ELSE /\ result' = Executing
                /\ runtime' = add_class(create_runtime_const, class.class)
                /\ heap' = << create_stdout_object >>
                /\ frames' = << create_frame(jvm, stop, "execute_method") >>

\* main, from the return of execute_method on: Ok(_) does nothing, Err(err)
\* does println!("Error: {0}", err), and main returns, which ends the
\* process with status 0.  A panic ends it with Rust's status 101 instead.
main ==
    /\ exit = NotExited
    /\ result.kind \in {"ok", "err", "panic"}
    /\ exit' = CASE result.kind = "ok" -> [status |-> 0, printed |-> << >>]
                [] result.kind = "err" ->
                     [status |-> 0,
                      printed |-> << [text |-> "Error: ", msg |-> result.msg,
                                      args |-> result.args] >>]
                [] result.kind = "panic" -> [status |-> 101, printed |-> << >>]
    /\ UNCHANGED << file, jvm, overflow_checks, runtime, heap, frames, stdout,
                    result, last, written >>
    /\ Record

\* Loop exit: pc is not below code.len(), and the function returns
\* Ok(Void) (the last line of do_execute_method).
LoopExit ==
    /\ Running
    /\ ~InCode
    /\ last' = [op |-> -1, pc |-> F.pc, depth |-> Len(frames)]
    /\ UNCHANGED << file, jvm, overflow_checks, runtime, exit >>
    /\ Record
    /\ Pure
    /\ Return(VoidV)

\* iconst_0 .. iconst_5
ICONST(k) ==
    /\ Dispatch(ICONST0 + k)
    /\ Pure
    /\ Continue(Advance(push_value(F, IntV(k)), 1))

\* bipush: the operand byte, cast from u8 to i64.
PushByte ==
    /\ Dispatch(PUSHBYTE)
    /\ Pure
    /\ IF ~HasByte(F.pc + 1) THEN Panic("index out of bounds")
       ELSE Continue(Advance(push_value(F, IntV(CodeAt(F.pc + 1))), 2))

IReturn_hands_back ==
    /\ Dispatch(IRETURN)
    /\ Pure
    /\ IF F.stack = << >> THEN Fail("Stack underflow", << >>)
       ELSE IF Len(frames) = 1 THEN Return(Top(F))
       ELSE /\ frames' = Append(SubSeq(frames, 1, Len(frames) - 2),
                                Advance(push_value(frames[Len(frames) - 1],
                                                   Top(F)), 3))
            /\ result' = result

IReturn ==
    /\ Dispatch(IRETURN)
    /\ Pure
    /\ IF F.stack = << >> THEN Fail("Stack underflow", << >>)
       ELSE Return(Top(F))

ReturnVoid ==
    /\ Dispatch(RETURN)
    /\ Pure
    /\ Return(VoidV)

\* dup
Dup_clones_object ==
    /\ Dispatch(DUP)
    /\ UNCHANGED << stdout, written >>
    /\ IF F.stack = << >> THEN Fail("Stack underflow", << >>) /\ heap' = heap
       ELSE IF Top(F).t = "Object"
       THEN /\ heap' = Append(heap, heap[Top(F).i])
            /\ Continue(Advance(push_value(F, ObjectV(Len(heap) + 1)), 1))
       ELSE /\ heap' = heap
            /\ Continue(Advance(push_value(F, Top(F)), 1))

Dup ==
    /\ Dispatch(DUP)
    /\ Pure
    /\ IF F.stack = << >> THEN Fail("Stack underflow", << >>)
       ELSE Continue(Advance(push_value(F, Top(F)), 1))

\* The body shared by astore_1 and istore_0..3: pop, then locals[k] = value.
store_local(k) ==
    IF F.stack = << >> THEN Fail("Stack underflow", << >>)
    ELSE IF ~HasLocal(F, k) THEN Panic("index out of bounds")
    ELSE Continue(Advance(SetLocal(Popped(F), k, Top(F)), 1))

AStore1 ==
    /\ Dispatch(ASTORE1)
    /\ Pure
    /\ store_local(1)

IStoreN(k) ==
    /\ Dispatch(ISTORE0 + k)
    /\ Pure
    /\ store_local(k)

IStore_grows_locals ==
    /\ Dispatch(ISTORE)
    /\ Pure
    /\ IF ~HasByte(F.pc + 1) THEN Panic("index out of bounds")
       ELSE IF F.stack = << >> THEN Fail("Stack underflow", << >>)
       ELSE Continue(Advance([Popped(F) EXCEPT !.locals = Append(@, Top(F))], 2))

IStore ==
    /\ Dispatch(ISTORE)
    /\ Pure
    /\ IF ~HasByte(F.pc + 1) THEN Panic("index out of bounds")
       ELSE IF F.stack = << >> THEN Fail("Stack underflow", << >>)
       ELSE IF ~HasLocal(F, CodeAt(F.pc + 1)) THEN Panic("index out of bounds")
       ELSE Continue(Advance(SetLocal(Popped(F), CodeAt(F.pc + 1), Top(F)), 2))

\* The body shared by aload_0, aload_1 and iload_0..3: push locals[k].
load_local(k) ==
    IF ~HasLocal(F, k) THEN Panic("index out of bounds")
    ELSE Continue(Advance(push_value(F, Local(F, k)), 1))

ALoadN(k) ==
    /\ Dispatch(ALOAD0 + k)
    /\ Pure
    /\ load_local(k)

ILoadN(k) ==
    /\ Dispatch(ILOAD0 + k)
    /\ Pure
    /\ load_local(k)

ILoad_advances_one ==
    /\ Dispatch(ILOAD)
    /\ Pure
    /\ IF ~HasByte(F.pc + 1) THEN Panic("index out of bounds")
       ELSE IF ~HasLocal(F, CodeAt(F.pc + 1)) THEN Panic("index out of bounds")
       ELSE Continue(Advance(push_value(F, Local(F, CodeAt(F.pc + 1))), 1))

ILoad ==
    /\ Dispatch(ILOAD)
    /\ Pure
    /\ IF ~HasByte(F.pc + 1) THEN Panic("index out of bounds")
       ELSE IF ~HasLocal(F, CodeAt(F.pc + 1)) THEN Panic("index out of bounds")
       ELSE Continue(Advance(push_value(F, Local(F, CodeAt(F.pc + 1))), 2))

\* The closures handed to do_iop by the IADD, IMUL and IDIV arms.
iadd_op(i1, i2) == i1 + i2
imul_op(i1, i2) == i1 * i2
idiv_op(i1, i2) == trunc_div(i1, i2)

apply_op(op, i1, i2) ==
    CASE op = IADD -> iadd_op(i1, i2)
      [] op = IMUL -> imul_op(i1, i2)
      [] op = IDIV -> idiv_op(i1, i2)

\* do_iop: value1 is popped first (the top of the stack), value2 second, and
\* the result is op(value1, value2).  [kind, value, msg]: kind is "ok",
\* "err" or "panic" (an integer division by zero panics).
do_iop_pops_what_is_there(f, op) ==
    LET value1 == IF Len(f.stack) >= 1 THEN f.stack[Len(f.stack)] ELSE IntV(0)
        value2 == IF Len(f.stack) >= 2 THEN f.stack[Len(f.stack) - 1] ELSE IntV(1)
    IN  IF value1.t # "Int" \/ value2.t # "Int"
        THEN [kind |-> "err", value |-> VoidV,
              msg |-> "invalid value type for integer op"]
        ELSE IF op = IDIV /\ value2.i = 0
        THEN [kind |-> "panic", value |-> VoidV,
              msg |-> "attempt to divide by zero"]
        ELSE [kind |-> "ok", value |-> IntV(apply_op(op, value1.i, value2.i)),
              msg |-> ""]

do_iop(f, op) ==
    LET value1 == f.stack[Len(f.stack)]
        value2 == f.stack[Len(f.stack) - 1]
    IN  IF Len(f.stack) < 2
        THEN [kind |-> "err", value |-> VoidV, msg |-> "Stack underflow"]
        ELSE IF value1.t # "Int" \/ value2.t # "Int"
        THEN [kind |-> "err", value |-> VoidV,
              msg |-> "invalid value type for integer op"]
        ELSE IF op = IDIV /\ value2.i = 0
        THEN [kind |-> "panic", value |-> VoidV,
              msg |-> "attempt to divide by zero"]
        ELSE [kind |-> "ok", value |-> IntV(apply_op(op, value1.i, value2.i)),
              msg |-> ""]

\* The IADD, IMUL and IDIV arms: the result of do_iop is pushed on what the
\* two pops left.
IntegerOp(op) ==
    /\ Dispatch(op)
    /\ Pure
    /\ LET r == do_iop(F, op)
       IN  CASE r.kind = "err" -> Fail(r.msg, << >>)
             [] r.kind = "panic" -> Panic(r.msg)
             [] r.kind = "ok" ->
                  Continue(Advance(push_value(Popped(Popped(F)), r.value), 1))

\* iinc: the increment byte is cast from u8 to i64.
IInc_adds_nothing ==
    /\ Dispatch(IINC)
    /\ Pure
    /\ IF ~HasByte(F.pc + 1) THEN Panic("index out of bounds")
       ELSE IF ~HasLocal(F, CodeAt(F.pc + 1)) THEN Panic("index out of bounds")
       ELSE IF ~HasByte(F.pc + 2) THEN Panic("index out of bounds")
       ELSE LET index == CodeAt(F.pc + 1)
                value == Local(F, index)
            IN  IF value.t # "Int" THEN Fail("inc on non-int", << >>)
                ELSE Continue(Advance(SetLocal(F, index, IntV(value.i)), 3))

IInc ==
    /\ Dispatch(IINC)
    /\ Pure
    /\ IF ~HasByte(F.pc + 1) THEN Panic("index out of bounds")
       ELSE IF ~HasLocal(F, CodeAt(F.pc + 1)) THEN Panic("index out of bounds")
       ELSE IF ~HasByte(F.pc + 2) THEN Panic("index out of bounds")
       ELSE LET index == CodeAt(F.pc + 1)
                value == Local(F, index)
                inc == CodeAt(F.pc + 2)
            IN  IF value.t # "Int" THEN Fail("inc on non-int", << >>)
                ELSE Continue(Advance(SetLocal(F, index, IntV(value.i + inc)), 3))

\* (pc as i16 + offset) as usize, offset an i16.  The sum is an i16: outside
\* the i16 range it panics in a build that checks overflow and wraps
\* otherwise.  [panic, pc].
jump16(pc, offset, checked) ==
    LET sum == as_i16(pc) + offset
    IN  IF (sum > 32767 \/ sum < -32768) /\ checked
        THEN [panic |-> TRUE, pc |-> 0]
        ELSE [panic |-> FALSE, pc |-> as_i16(sum)]

\* The comparator handed to do_icompare by the if_icmpge arm.
icmpge(i1, i2) == i1 >= i2

\* do_icompare: value2 is popped first (the top), value1 second.
\* [kind, pc, msg].
do_icompare_non_int_not_taken(f, pc, offset, checked) ==
    LET value2 == f.stack[Len(f.stack)]
        value1 == f.stack[Len(f.stack) - 1]
        target == jump16(pc, offset, checked)
    IN  IF Len(f.stack) < 2
        THEN [kind |-> "err", pc |-> 0, msg |-> "Stack underflow"]
        ELSE IF value1.t # "Int" \/ value2.t # "Int"
        THEN [kind |-> "ok", pc |-> pc + 3, msg |-> ""]
        ELSE IF icmpge(value1.i, value2.i)
        THEN IF target.panic
             THEN [kind |-> "panic", pc |-> 0, msg |-> "attempt to add with overflow"]
             ELSE [kind |-> "ok", pc |-> target.pc, msg |-> ""]
        ELSE [kind |-> "ok", pc |-> pc + 3, msg |-> ""]

do_icompare(f, pc, offset, checked) ==
    LET value2 == f.stack[Len(f.stack)]
        value1 == f.stack[Len(f.stack) - 1]
        target == jump16(pc, offset, checked)
    IN  IF Len(f.stack) < 2
        THEN [kind |-> "err", pc |-> 0, msg |-> "Stack underflow"]
        ELSE IF value1.t # "Int" \/ value2.t # "Int"
        THEN [kind |-> "err", pc |-> 0, msg |-> "invalid compare of non-int"]
        ELSE IF icmpge(value1.i, value2.i)
        THEN IF target.panic
             THEN [kind |-> "panic", pc |-> 0, msg |-> "attempt to add with overflow"]
             ELSE [kind |-> "ok", pc |-> target.pc, msg |-> ""]
        ELSE [kind |-> "ok", pc |-> pc + 3, msg |-> ""]

IfICompareGreaterEqual ==
    /\ Dispatch(IFICOMPAREGREATEREQUAL)
    /\ Pure
    /\ IF ~HasByte(F.pc + 1) \/ ~HasByte(F.pc + 2) THEN Panic("index out of bounds")
       ELSE LET offset == as_i16(make_int16(CodeAt(F.pc + 1), CodeAt(F.pc + 2)))
                r == do_icompare(F, F.pc, offset, overflow_checks)
            IN  CASE r.kind = "err" -> Fail(r.msg, << >>)
                  [] r.kind = "panic" -> Panic(r.msg)
                  [] r.kind = "ok" ->
                       Continue([Popped(Popped(F)) EXCEPT !.pc = r.pc])

Goto ==
    /\ Dispatch(GOTO)
    /\ Pure
    /\ IF ~HasByte(F.pc + 1) \/ ~HasByte(F.pc + 2) THEN Panic("index out of bounds")
       ELSE LET offset == make_int16(CodeAt(F.pc + 1), CodeAt(F.pc + 2))
                target == jump16(F.pc, as_i16(offset), overflow_checks)
            IN  IF target.panic THEN Panic("attempt to add with overflow")
                ELSE Continue([F EXCEPT !.pc = target.pc])

\* The four bytes at code[i..i+3] through make_int32.
HasWord(i) == HasByte(i) /\ HasByte(i + 3)
WordAt(i) == make_int32(CodeAt(i), CodeAt(i + 1), CodeAt(i + 2), CodeAt(i + 3))

\* The number of iterations of `for _ in low..=high` (low and high are the
\* two u32 cast to i64), or -1 when there are 2^31 - 2^17 or more: that
\* many four-byte entries exceed any code array (code_length is a u32).
table_len(low, high) ==
    IF ~u32_le(low, high) THEN 0
    ELSE IF high[1] - low[1] >= 32767 THEN -1
    ELSE (high[1] - low[1]) * 65536 + (high[2] - low[2]) + 1

\* (original_pc as i32 + w as i32) as usize.  The sum is an i32: above the
\* i32 range it panics in a build that checks overflow and wraps otherwise.
\* [panic, pc].
jump32(pc, w, checked) ==
    LET offset == as_i32(w)
    IN  IF offset > 2147483647 - pc
        THEN IF checked THEN [panic |-> TRUE, pc |-> 0]
             ELSE [panic |-> FALSE,
                   pc |-> (offset - 2147483647 - 1) + (pc - 2147483647 - 1)]
        ELSE [panic |-> FALSE, pc |-> pc + offset]

\* pc + 1 rounded up to a multiple of 4.
align4_unpadded(pc) == pc

align4(pc) == IF pc % 4 # 0 THEN pc + (4 - (pc % 4)) ELSE pc

TableSwitch ==
    /\ Dispatch(TABLESWITCH)
    /\ Pure
    /\ LET original_pc == F.pc
           base == align4(original_pc + 1)
       IN  IF ~HasWord(base) \/ ~HasWord(base + 4) \/ ~HasWord(base + 8)
           THEN Panic("index out of bounds")
           ELSE
           LET default == WordAt(base)
               low == WordAt(base + 4)
               high == WordAt(base + 8)
               n == table_len(low, high)
               offsets(k) == WordAt(base + 12 + 4 * k)
           IN  IF n = -1 \/ (n > 0 /\ ~HasWord(base + 12 + 4 * (n - 1)))
               THEN Panic("index out of bounds")
               ELSE IF F.stack = << >> THEN Fail("Stack underflow", << >>)
               ELSE IF Top(F).t # "Int"
               THEN Fail("Invalid index for tableswitch", << >>)
               ELSE
               LET i == Top(F).i
                   target == IF i64_lt_u32(i, low) \/ i64_gt_u32(i, high)
                             THEN jump32(original_pc, default, overflow_checks)
                             ELSE jump32(original_pc, offsets(i - u32_small(low)),
                                         overflow_checks)
               IN  IF target.panic THEN Panic("attempt to add with overflow")
                   ELSE Continue([Popped(F) EXCEPT !.pc = target.pc])

\* push_runtime_constant: [ok, value, msg, args].
push_runtime_constant(pool, index) ==
    LET e == constant_pool_lookup(pool, index)
        target == constant_pool_lookup(pool, e.a)
    IN  IF ~(index > 0 /\ index < Len(pool))
        THEN [ok |-> FALSE, value |-> VoidV,
              msg |-> "constant index out of range", args |-> << index >>]
        ELSE IF e.tag = "Stringref" /\ target.tag = "Utf8"
        THEN [ok |-> TRUE, value |-> StringV(target.s), msg |-> "", args |-> << >>]
        ELSE [ok |-> FALSE, value |-> VoidV,
              msg |-> "error with push constant", args |-> << >>]

\* ldc
PushRuntimeConstant ==
    /\ Dispatch(PUSHRUNTIMECONSTANT)
    /\ Pure
    /\ IF ~HasByte(F.pc + 1) THEN Panic("index out of bounds")
       ELSE LET r == push_runtime_constant(jvm.constant_pool, CodeAt(F.pc + 1))
            IN  IF r.ok THEN Continue(Advance(push_value(F, r.value), 2))
                ELSE Fail(r.msg, r.args)

\* The default arm of the dispatch.
SupportedOpcodes ==
    { ICONST0, ICONST1, ICONST2, ICONST3, ICONST4, ICONST5, PUSHBYTE,
      PUSHRUNTIMECONSTANT, ILOAD, ILOAD0, ILOAD1, ILOAD2, ILOAD3, ALOAD0,
      ALOAD1, ISTORE, ISTORE0, ISTORE1, ISTORE2, ISTORE3, ASTORE1, DUP, IADD,
      IMUL, IDIV, IINC, TABLESWITCH, IFICOMPAREGREATEREQUAL, GOTO, IRETURN,
      RETURN, GETSTATIC, GETFIELD, PUTFIELD, INVOKEVIRTUAL, INVOKESPECIAL,
      INVOKESTATIC, OP_NEW }

UnknownOpcode_is_skipped ==
    /\ InCode
    /\ Op \notin SupportedOpcodes
    /\ Dispatch(Op)
    /\ Pure
    /\ Continue(Advance(F, 1))

UnknownOpcode ==
    /\ InCode
    /\ Op \notin SupportedOpcodes
    /\ Dispatch(Op)
    /\ Pure
    /\ Fail("Unknown opcode", << F.pc, Op >>)

\* The u16 operand of a three-byte instruction: (b1 << 8) | b2.
HasIndex == HasByte(F.pc + 1) /\ HasByte(F.pc + 2)
IndexOperand == CodeAt(F.pc + 1) * 256 + CodeAt(F.pc + 2)

\* RuntimeConst::lookup_class
HasClass(classes, class_name) == class_name \in DOMAIN classes

\* create_new_object: [ok, object, msg].
create_new_object(pool, classes, index) ==
    LET e == constant_pool_lookup(pool, index)
        name == constant_pool_lookup(pool, e.a)
        bad(msg) == [ok |-> FALSE, object |-> JVMObject("", EmptyMap), msg |-> msg]
    IN  IF e.tag = "None" THEN bad("unknown classref")
        ELSE IF e.tag # "Classref" THEN bad("index was not a classref")
        ELSE IF name.tag # "Utf8" THEN bad("error with create object")
        ELSE IF ~HasClass(classes, name.s) THEN bad("no such class named")
        ELSE [ok |-> TRUE, object |-> create_object(classes[name.s]), msg |-> ""]

\* new: the object is allocated at a fresh handle.
New_reuses_handle ==
    /\ Dispatch(OP_NEW)
    /\ UNCHANGED << stdout, written >>
    /\ IF ~HasIndex THEN Panic("index out of bounds") /\ heap' = heap
       ELSE LET r == create_new_object(jvm.constant_pool, runtime, IndexOperand)
            IN  IF ~r.ok THEN Fail(r.msg, << IndexOperand >>) /\ heap' = heap
                ELSE /\ heap' = [heap EXCEPT ![Len(heap)] = r.object]
                     /\ Continue(Advance(push_value(F, ObjectV(Len(heap))), 3))

New ==
    /\ Dispatch(OP_NEW)
    /\ UNCHANGED << stdout, written >>
    /\ IF ~HasIndex THEN Panic("index out of bounds") /\ heap' = heap
       ELSE LET r == create_new_object(jvm.constant_pool, runtime, IndexOperand)
            IN  IF ~r.ok THEN Fail(r.msg, << IndexOperand >>) /\ heap' = heap
                ELSE /\ heap' = Append(heap, r.object)
                     /\ Continue(Advance(push_value(F, ObjectV(Len(heap) + 1)), 3))

\* The resolution shared by getfield and putfield: [ok, name, msg].
field_name(pool, field_index) ==
    LET e == constant_pool_lookup(pool, field_index)
        nt == constant_pool_lookup(pool, e.b)
        name == lookup_utf8_constant(pool, nt.a)
    IN  IF e.tag # "Fieldref" THEN [ok |-> FALSE, name |-> "", msg |-> "unknown fieldref"]
        ELSE IF nt.tag # "NameAndType"
        THEN [ok |-> FALSE, name |-> "", msg |-> "unknown name and type index"]
        ELSE IF ~name.some
        THEN [ok |-> FALSE, name |-> "", msg |-> "unknown name index"]
        ELSE [ok |-> TRUE, name |-> name.s, msg |-> ""]

\* getfield: [ok, value, msg].
getfield(pool, objects, field_index, object) ==
    LET r == field_name(pool, field_index)
    IN  IF ~r.ok THEN [ok |-> FALSE, value |-> VoidV, msg |-> r.msg]
        ELSE IF object.t # "Object"
        THEN [ok |-> FALSE, value |-> VoidV, msg |-> "objectref was not an object"]
        ELSE IF r.name \notin DOMAIN objects[object.i].fields
        THEN [ok |-> FALSE, value |-> VoidV, msg |-> "no such field"]
        ELSE [ok |-> TRUE, value |-> objects[object.i].fields[r.name], msg |-> ""]

GetField ==
    /\ Dispatch(GETFIELD)
    /\ Pure
    /\ IF ~HasIndex THEN Panic("index out of bounds")
       ELSE IF F.stack = << >> THEN Fail("Stack underflow", << >>)
       ELSE LET r == getfield(jvm.constant_pool, heap, IndexOperand, Top(F))
            IN  IF ~r.ok THEN Fail(r.msg, << IndexOperand >>)
                ELSE Continue(Advance(push_value(Popped(F), r.value), 3))

\* putfield: [ok, objects, msg]; objects is the heap after the write.
putfield_keeps_first(pool, objects, field_index, object, field_value) ==
    LET r == field_name(pool, field_index)
    IN  IF ~r.ok THEN [ok |-> FALSE, objects |-> objects, msg |-> r.msg]
        ELSE IF object.t # "Object"
        THEN [ok |-> FALSE, objects |-> objects, msg |-> "objectref was not an object"]
        ELSE [ok |-> TRUE, msg |-> "",
              objects |-> IF r.name \in DOMAIN objects[object.i].fields
                          THEN objects
                          ELSE [objects EXCEPT ![object.i].fields =
                                                  MapPut(@, r.name, field_value)]]

putfield(pool, objects, field_index, object, field_value) ==
    LET r == field_name(pool, field_index)
    IN  IF ~r.ok THEN [ok |-> FALSE, objects |-> objects, msg |-> r.msg]
        ELSE IF object.t # "Object"
        THEN [ok |-> FALSE, objects |-> objects, msg |-> "objectref was not an object"]
        ELSE [ok |-> TRUE, msg |-> "",
              objects |-> [objects EXCEPT ![object.i].fields =
                                             MapPut(@, r.name, field_value)]]

PutField ==
    /\ Dispatch(PUTFIELD)
    /\ stdout' = stdout
    /\ IF ~HasIndex
       THEN Panic("index out of bounds") /\ UNCHANGED << heap, written >>
       ELSE IF Len(F.stack) < 2
       THEN Fail("Stack underflow", << >>) /\ UNCHANGED << heap, written >>
       ELSE LET value == Top(F)
                objectref == Top(Popped(F))
                r == putfield(jvm.constant_pool, heap, IndexOperand, objectref, value)
            IN  /\ written' = IF r.ok
                               THEN MapPut(written,
                                           << objectref.i,
                                              field_name(jvm.constant_pool,
                                                         IndexOperand).name >>,
                                           value)
                               ELSE written
                /\ IF ~r.ok THEN Fail(r.msg, << IndexOperand >>) /\ heap' = heap
                   ELSE /\ heap' = r.objects
                        /\ Continue(Advance(Popped(Popped(F)), 3))

\* op_getstatic: [ok, value].
op_getstatic_missing_is_void(pool, classes, field_index) ==
    LET e == constant_pool_lookup(pool, field_index)
        class == constant_pool_lookup(pool, e.a)
        class_name == lookup_utf8_constant(pool, class.a)
        nt == constant_pool_lookup(pool, e.b)
        name == lookup_utf8_constant(pool, nt.a)
    IN  IF /\ e.tag = "Fieldref"
           /\ class.tag = "Classref"
           /\ class_name.some
           /\ nt.tag = "NameAndType"
           /\ name.some
        THEN [ok |-> TRUE,
              value |-> IF /\ HasClass(classes, class_name.s)
                           /\ name.s \in DOMAIN classes[class_name.s].fields
                        THEN classes[class_name.s].fields[name.s]
                        ELSE VoidV]
        ELSE [ok |-> FALSE, value |-> VoidV]

op_getstatic(pool, classes, field_index) ==
    LET e == constant_pool_lookup(pool, field_index)
        class == constant_pool_lookup(pool, e.a)
        class_name == lookup_utf8_constant(pool, class.a)
        nt == constant_pool_lookup(pool, e.b)
        name == lookup_utf8_constant(pool, nt.a)
    IN  IF /\ e.tag = "Fieldref"
           /\ class.tag = "Classref"
           /\ class_name.some
           /\ nt.tag = "NameAndType"
           /\ name.some
           /\ HasClass(classes, class_name.s)
           /\ name.s \in DOMAIN classes[class_name.s].fields
        THEN [ok |-> TRUE, value |-> classes[class_name.s].fields[name.s]]
        ELSE [ok |-> FALSE, value |-> VoidV]

GetStatic ==
    /\ Dispatch(GETSTATIC)
    /\ Pure
    /\ IF ~HasIndex THEN Panic("index out of bounds")
       ELSE LET r == op_getstatic(jvm.constant_pool, runtime, IndexOperand)
            IN  IF ~r.ok THEN Fail("error in getstatic with index", << IndexOperand >>)
                ELSE Continue(Advance(push_value(F, r.value), 3))

\* ------------------------------------------------------------------------
\* Invocation
\* ------------------------------------------------------------------------
\* The bound on the nesting of do_execute_method that the model explores.
MaxDepth == 3

\* The chain of constant-pool matches at the head of the three invoke_*
\* functions, in the order they are made.  stage names the first match that
\* fails ("methodref", "classref", "nameandtype", "descriptor", "parse") or
\* is "ok"; parameters is method_descriptor.parameters.
resolve_methodref(pool, method_index) ==
    LET e == constant_pool_lookup(pool, method_index)
        class == constant_pool_lookup(pool, e.a)
        class_name == constant_pool_lookup(pool, class.a)
        nt == constant_pool_lookup(pool, e.b)
        name == constant_pool_lookup(pool, nt.a)
        descriptor == lookup_utf8_constant(pool, nt.b)
        md == parse_method_descriptor(descriptor.s)
        at(stage) == [stage |-> stage, class_name |-> "", name |-> "",
                      parameters |-> << >>]
    IN  IF e.tag # "Methodref" THEN at("methodref")
        ELSE IF class.tag # "Classref" \/ class_name.tag # "Utf8" THEN at("classref")
        ELSE IF nt.tag # "NameAndType" \/ name.tag # "Utf8" THEN at("nameandtype")
        ELSE IF ~descriptor.some THEN at("descriptor")
        ELSE IF ~md.ok THEN at("parse")
        ELSE [stage |-> "ok", class_name |-> class_name.s, name |-> name.s,
              parameters |-> md.parameters]

\* Vec::reverse
reverse(v) == [k \in 1..Len(v) |-> v[Len(v) - k + 1]]

\* The pop loop: n values popped one by one and pushed on `locals` in the
\* order they are popped.
pop_parameters(stack, n) == [k \in 1..n |-> stack[Len(stack) - k + 1]]

\* The stack after n pops.
drop(stack, n) == SubSeq(stack, 1, Len(stack) - n)

\* invoke_static: the popped parameters, reversed.
static_locals(stack, n) == reverse(pop_parameters(stack, n))

\* invoke_virtual and invoke_special: the receiver is pushed after the
\* parameters and the whole is reversed.
receiver_locals_unreversed(stack, n) ==
    Append(pop_parameters(stack, n), stack[Len(stack) - n])

receiver_locals(stack, n) ==
    reverse(Append(pop_parameters(stack, n), stack[Len(stack) - n]))

\* "fill in the rest of the locals array with 0"
fill_locals(locals, max_locals) ==
    locals \o [k \in 1..(max_locals - Len(locals)) |-> IntV(0)]

\* A frame for the bytecode method at index `method`, entered with `locals`.
enter_on_callers_stack(caller, method, via, locals) ==
    /\ frames' = Append([frames EXCEPT ![Len(frames)] = caller],
                        Frame(method, via, caller.stack, locals))
    /\ result' = result

enter(caller, method, via, locals) ==
    /\ frames' = Append([frames EXCEPT ![Len(frames)] = caller],
                        Frame(method, via, << >>, locals))
    /\ result' = result

\* A native has run and returned: the lines it wrote, then the rest of the
\* caller's invoke arm.
native_call_prints_first(caller, via, name, locals) ==
    LET r == call_native(name, locals)
    IN  IF r.panic THEN Panic("range start index out of range") /\ stdout' = stdout
        ELSE /\ stdout' = r.lines \o stdout
             /\ Continue(finish_invoke(caller, via, r.value))

native_call(caller, via, name, locals) ==
    LET r == call_native(name, locals)
    IN  IF r.panic THEN Panic("range start index out of range") /\ stdout' = stdout
        ELSE /\ stdout' = stdout \o r.lines
             /\ Continue(finish_invoke(caller, via, r.value))

InvokeStatic_unknown_returns_void ==
    /\ Dispatch(INVOKESTATIC)
    /\ UNCHANGED << heap, written >>
    /\ IF ~HasIndex THEN Panic("index out of bounds") /\ stdout' = stdout
       ELSE
       \E r \in { resolve_methodref(jvm.constant_pool, IndexOperand) } :
       LET n == Len(r.parameters)
           caller == [F EXCEPT !.stack = drop(@, n)]
           locals == static_locals(F.stack, n)
           method == runtime[r.class_name].methods[r.name]
           info == jvm.methods[method.index]
       IN  IF r.stage # "ok"
           THEN /\ stdout' = stdout
                /\ Fail(CASE r.stage = "methodref" -> "Invalid methodref"
                          [] r.stage = "classref" -> "Invalid classref"
                          [] r.stage = "nameandtype" -> "Invalid name and type"
                          [] r.stage = "descriptor" -> "could not find descriptor"
                          [] r.stage = "parse" -> "cannot parse descriptor",
                        << IndexOperand >>)
           ELSE IF Len(F.stack) < n
           THEN Fail("Stack underflow", << >>) /\ stdout' = stdout
           ELSE IF \/ ~HasClass(runtime, r.class_name)
                   \/ r.name \notin DOMAIN runtime[r.class_name].methods
           THEN /\ stdout' = stdout
                /\ Continue(finish_invoke(caller, "invoke_static", VoidV))
           ELSE IF method.kind = "Native"
           THEN native_call(caller, "invoke_static", method.native, locals)
           ELSE /\ stdout' = stdout
                /\ IF info.has_code /\ info.max_locals < Len(locals)
                   THEN Panic("attempt to subtract with overflow")
                   ELSE IF ~info.has_code THEN Fail("no code attribute", << >>)
                   ELSE /\ Len(frames) < MaxDepth
                        /\ enter(caller, method.index, "invoke_static",
                                 fill_locals(locals, info.max_locals))

InvokeStatic ==
    /\ Dispatch(INVOKESTATIC)
    /\ UNCHANGED << heap, written >>
    /\ IF ~HasIndex THEN Panic("index out of bounds") /\ stdout' = stdout
       ELSE
       \E r \in { resolve_methodref(jvm.constant_pool, IndexOperand) } :
       LET n == Len(r.parameters)
           caller == [F EXCEPT !.stack = drop(@, n)]
           locals == static_locals(F.stack, n)
           method == runtime[r.class_name].methods[r.name]
           info == jvm.methods[method.index]
       IN  IF r.stage # "ok"
           THEN /\ stdout' = stdout
                /\ Fail(CASE r.stage = "methodref" -> "Invalid methodref"
                          [] r.stage = "classref" -> "Invalid classref"
                          [] r.stage = "nameandtype" -> "Invalid name and type"
                          [] r.stage = "descriptor" -> "could not find descriptor"
                          [] r.stage = "parse" -> "cannot parse descriptor",
                        << IndexOperand >>)
           ELSE IF Len(F.stack) < n
           THEN Fail("Stack underflow", << >>) /\ stdout' = stdout
           ELSE IF \/ ~HasClass(runtime, r.class_name)
                   \/ r.name \notin DOMAIN runtime[r.class_name].methods
           THEN Fail("error invoking method", << >>) /\ stdout' = stdout
           ELSE IF method.kind = "Native"
           THEN native_call(caller, "invoke_static", method.native, locals)
           ELSE /\ stdout' = stdout
                /\ IF info.has_code /\ info.max_locals < Len(locals)
                   THEN Panic("attempt to subtract with overflow")
                   ELSE IF ~info.has_code THEN Fail("no code attribute", << >>)
                   ELSE /\ Len(frames) < MaxDepth
                        /\ enter(caller, method.index, "invoke_static",
                                 fill_locals(locals, info.max_locals))

InvokeVirtual ==
    /\ Dispatch(INVOKEVIRTUAL)
    /\ UNCHANGED << heap, written >>
    /\ IF ~HasIndex THEN Panic("index out of bounds") /\ stdout' = stdout
       ELSE
       \E r \in { resolve_methodref(jvm.constant_pool, IndexOperand) } :
       LET n == Len(r.parameters)
           caller == [F EXCEPT !.stack = drop(@, n + 1)]
           object == F.stack[Len(F.stack) - n]
           locals == receiver_locals(F.stack, n)
           method == runtime[r.class_name].methods[r.name]
           info == jvm.methods[method.index]
       IN  IF r.stage \in {"methodref", "classref", "nameandtype"}
           THEN Fail("unable to find method index", << IndexOperand >>)
                /\ stdout' = stdout
           ELSE IF r.stage = "descriptor"
           THEN Fail("could not find method descriptor", << IndexOperand >>)
                /\ stdout' = stdout
           ELSE IF r.stage = "parse"
           THEN Fail("cannot parse descriptor", << IndexOperand >>)
                /\ stdout' = stdout
           ELSE IF Len(F.stack) < n
           THEN Fail("Stack underflow", << >>) /\ stdout' = stdout
           ELSE IF Len(F.stack) = n
           THEN Fail("no value on stack", << >>) /\ stdout' = stdout
           ELSE IF object.t # "Object"
           THEN Fail("wrong value type on stack", << >>) /\ stdout' = stdout
           ELSE IF \/ ~HasClass(runtime, r.class_name)
                   \/ r.name \notin DOMAIN runtime[r.class_name].methods
           THEN Fail("unable to find method index", << IndexOperand >>)
                /\ stdout' = stdout
           ELSE IF method.kind = "Native"
           THEN native_call(caller, "invoke_virtual", method.native, locals)
           ELSE /\ stdout' = stdout
                /\ IF ~info.has_code THEN Fail("no code attribute", << >>)
                   ELSE IF info.max_locals < Len(locals)
                   THEN Panic("attempt to subtract with overflow")
                   ELSE /\ Len(frames) < MaxDepth
                        /\ enter(caller, method.index, "invoke_virtual",
                                 fill_locals(locals, info.max_locals))

\* invoke_special hands the callee the receiver and the parameters alone:
\* it has no fill loop.
InvokeSpecial ==
    /\ Dispatch(INVOKESPECIAL)
    /\ UNCHANGED << heap, written >>
    /\ IF ~HasIndex THEN Panic("index out of bounds") /\ stdout' = stdout
       ELSE
       \E r \in { resolve_methodref(jvm.constant_pool, IndexOperand) } :
       LET n == Len(r.parameters)
           caller == [F EXCEPT !.stack = drop(@, n + 1)]
           object == F.stack[Len(F.stack) - n]
           locals == receiver_locals(F.stack, n)
           method == runtime[r.class_name].methods[r.name]
           info == jvm.methods[method.index]
       IN  IF r.stage \in {"methodref", "classref", "nameandtype"}
           THEN Fail("unable to find method index", << IndexOperand >>)
                /\ stdout' = stdout
           ELSE IF r.stage = "descriptor"
           THEN Fail("could not find method descriptor", << IndexOperand >>)
                /\ stdout' = stdout
           ELSE IF r.stage = "parse"
           THEN Fail("cannot parse descriptor", << IndexOperand >>)
                /\ stdout' = stdout
           ELSE IF Len(F.stack) < n + 1
           THEN Fail("Stack underflow", << >>) /\ stdout' = stdout
           ELSE IF object.t # "Object"
           THEN Fail("wrong value type on stack", << >>) /\ stdout' = stdout
           ELSE IF \/ ~HasClass(runtime, r.class_name)
                   \/ r.name \notin DOMAIN runtime[r.class_name].methods
           THEN Fail("unable to find method index", << IndexOperand >>)
                /\ stdout' = stdout
           ELSE IF method.kind = "Native"
           THEN native_call(caller, "invoke_special", method.native, locals)
           ELSE /\ stdout' = stdout
                /\ IF ~info.has_code THEN Fail("no code attribute", << >>)
                   ELSE /\ Len(frames) < MaxDepth
                        /\ enter(caller, method.index, "invoke_special", locals)

\* ------------------------------------------------------------------------
\* The class files the model runs
\* ------------------------------------------------------------------------
\* n bytes of 0 (never executed: they only set the distance between
\* instructions).
Filler(n) == [k \in 1..n |-> 0]

\* bipush a; bipush b; iadd | imul | idiv; ireturn
ArithBytes == {0, 1, 2, 7, 128, 255}
ArithPrograms ==
    { MainOnly(<< PUSHBYTE, a, PUSHBYTE, b, op, IRETURN >>) :
        a \in ArithBytes, b \in ArithBytes, op \in {IADD, IMUL, IDIV} }

\* bipush x; ireturn, for every byte x
BipushPrograms == { MainOnly(<< PUSHBYTE, x, IRETURN >>) : x \in 0..255 }

\* A value on the stack and one in local 3, then: bipush i; istore s;
\* iinc n c; iload n; ireturn
IincPrograms ==
    { MainOnly(<< ICONST3, PUSHBYTE, 9, ISTORE3, PUSHBYTE, i, ISTORE, s,
                  IINC, n, c, ILOAD, n, IRETURN >>) :
        i \in {0, 5, 200}, s \in {1, 2}, n \in 1..4, c \in {0, 1, 127, 128, 255} }

\* if_icmpge jumping forward (opcode at 4, target 9) and backward (opcode at
\* 12, target 3)
CompareBytes == {0, 1, 2, 255}
ComparePrograms ==
    { MainOnly(<< PUSHBYTE, a, PUSHBYTE, b, IFICOMPAREGREATEREQUAL, 0, 5,
                  ICONST0, IRETURN, ICONST1, IRETURN >>) :
        a \in CompareBytes, b \in CompareBytes }
    \cup
    { MainOnly(<< GOTO, 0, 8, ICONST1, IRETURN, 0, 0, 0, PUSHBYTE, a,
                  PUSHBYTE, b, IFICOMPAREGREATEREQUAL, 255, 247,
                  ICONST0, IRETURN >>) :
        a \in CompareBytes, b \in CompareBytes }

\* goto d at 0, and a goto -3 at 6
GotoPrograms ==
    { MainOnly(<< GOTO >> \o S16(d) \o << ICONST2, IRETURN, 0, GOTO, 255, 253 >>) :
        d \in {6, 3, 4, 9, 100, -1} }

\* A method longer than 32767 bytes: a jump instruction at 32760 whose
\* target is 32770.
FarPrograms ==
    { MainOnly(<< ICONST1, ICONST0, GOTO >> \o S16(32758) \o Filler(32755)
               \o << op >> \o S16(10) \o << RETURN >> \o Filler(6)
               \o << RETURN >>) :
        op \in {GOTO, IFICOMPAREGREATEREQUAL} }

\* tableswitch at address p with i on the stack.  The file holds three table
\* entries; behind the table: default -> iconst_0, entry j -> iconst_(j+1),
\* each followed by ireturn.  With back, entry 0 jumps backward to 3.
SwitchRanges ==
    { << S32(1), S32(3) >>, << S32(0), S32(0) >>, << S32(0), S32(2) >>,
      << S32(-1), S32(1) >>, << S32(2), S32(1) >> }

SwitchCode(k, i, range, back) ==
    LET head == IF back THEN << GOTO, 0, 5, ICONST1, IRETURN >> ELSE << >>
        pre == head \o [j \in 1..k |-> ICONST5] \o << ICONST0 + i >>
        p == Len(pre)
        base == 4 * ((p + 4) \div 4)
        T == base + 24
    IN  pre \o << TABLESWITCH >> \o Filler(base - (p + 1))
        \o S32(T - p) \o range[1] \o range[2]
        \o S32(IF back THEN 3 - p ELSE T + 2 - p) \o S32(T + 4 - p) \o S32(T + 6 - p)
        \o << ICONST0, IRETURN, ICONST1, IRETURN, ICONST2, IRETURN,
              ICONST3, IRETURN >>

SwitchPrograms ==
    { MainOnly(SwitchCode(k, i, range, back)) :
        k \in 0..3, i \in 0..4, range \in SwitchRanges, back \in BOOLEAN }
    \cup { MainOnly(<< ICONST0, TABLESWITCH, 0, 0, 0, 0, 0, 1 >>) }

\* Two getstatic in a row: of System.out, of a field its class does not
\* hold (Main.x, System.x), of a field of an unregistered class, of a
\* constant that is no Fieldref and of index 0; then System.out.
GetstaticPrograms ==
    { MainOnly(<< ICONST5, GETSTATIC, 0, k, GETSTATIC, 0, 14, RETURN >>) :
        k \in {14, 29, 44, 43, 2, 0} }

\* Each opcode that pops, on an empty stack and on a stack of one value; and
\* three of them in a method h()V called with a value on the caller's stack.
OneByteOps ==
    { IADD, IMUL, IDIV, ISTORE0, ISTORE1, ISTORE2, ISTORE3, ASTORE1, DUP,
      IRETURN }
PoppingCode ==
    { << op, RETURN >> : op \in OneByteOps }
    \cup { << ISTORE, 1, RETURN >>,
           << IFICOMPAREGREATEREQUAL, 0, 3, RETURN >>,
           << GETFIELD, 0, 29, RETURN >>,
           << PUTFIELD, 0, 29, RETURN >>,
           << TABLESWITCH, 0, 0, 0 >> \o S32(20) \o S32(0) \o S32(0) \o S32(20)
              \o << RETURN >> }
UnderflowPrograms ==
    { MainOnly(pre \o c) : pre \in { << >>, << ICONST1 >> },
                           c \in PoppingCode }
    \cup { JVMClassFile(<< MethodInfo(21, 6, 4, 4,
                                      << ICONST5, INVOKESTATIC, 0, 35, RETURN >>),
                           MethodInfo(33, 6, 2, 1, << op, RETURN >>) >>) :
             op \in {IADD, DUP, IRETURN} }

\* Bytes the dispatch has no arm for, first in the code, after a push, after
\* an allocation and a store, and in a method called from main.
UnknownBytes == { 0, 1, 2, 9, 87, 100, 188, 255 }
UnknownPrograms ==
    { MainOnly(pre \o << b, ICONST3, IRETURN >>) :
        pre \in { << >>, << ICONST2 >>, << OP_NEW, 0, 2, ASTORE1, ICONST2, ISTORE2 >> },
        b \in UnknownBytes }
    \cup { JVMClassFile(<< MethodInfo(21, 6, 4, 4,
                                      << OP_NEW, 0, 2, ASTORE1, ICONST5,
                                         INVOKESTATIC, 0, 35, RETURN >>),
                           MethodInfo(33, 6, 2, 1, << b, RETURN >>) >>) :
             b \in UnknownBytes }

\* Invokes of what cannot be resolved: index 0, an index past the pool (one
\* and two bytes), a Fieldref, a Stringref, a class nobody registers, and
\* methods f and h of a Main that declares main alone.
UnresolvedTargets == { 0, 14, 25, 35, 40, 45, 47, 300 }
UnresolvedPrograms ==
    { MainOnly(pre \o << op >> \o U16(target) \o << ICONST3, IRETURN >>) :
        pre \in { << >>, << OP_NEW, 0, 2 >>,
                  << OP_NEW, 0, 2, ICONST1, ICONST2 >> },
        op \in {INVOKEVIRTUAL, INVOKESPECIAL, INVOKESTATIC},
        target \in UnresolvedTargets }

\* main prints 1, calls g, prints 2; g calls h, prints 3; h does what
\* `body` says.  Every body but the last fails.
NestedClass(body) ==
    JVMClassFile(<< MethodInfo(21, 6, 4, 4,
                               << GETSTATIC, 0, 14, ICONST1, INVOKEVIRTUAL, 0, 20,
                                  ICONST5, INVOKESTATIC, 0, 32,
                                  GETSTATIC, 0, 14, ICONST2, INVOKEVIRTUAL, 0, 20,
                                  RETURN >>),
                    MethodInfo(30, 18, 4, 2,
                               << INVOKESTATIC, 0, 35,
                                  GETSTATIC, 0, 14, ICONST3, INVOKEVIRTUAL, 0, 20,
                                  RETURN >>),
                    MethodInfo(33, 6, 4, 2, body) >>)
NestedPrograms ==
    { NestedClass(body) :
        body \in { << IADD, RETURN >>, << 255, RETURN >>,
                   << ICONST1, GETFIELD, 0, 29, RETURN >>,
                   << INVOKESTATIC, 0, 45, RETURN >>,
                   << OP_NEW, 0, 2, ICONST4, PUTFIELD, 0, 29, ICONST1, ICONST0,
                      IDIV, RETURN >>,
                   << GETSTATIC, 0, 14, ICONST4, INVOKEVIRTUAL, 0, 20, RETURN >> } }

\* Two methods named main and two named h: main calls h and returns a
\* number that tells the two mains apart; each h prints its own number.
DuplicatePrograms ==
    { JVMClassFile(<< MethodInfo(21, 6, 4, 4,
                                 << INVOKESTATIC, 0, 35, ICONST1, IRETURN >>),
                      MethodInfo(33, 6, 4, 2,
                                 << GETSTATIC, 0, 14, ICONST3, INVOKEVIRTUAL, 0, 20,
                                    RETURN >>),
                      MethodInfo(21, 6, 4, 4,
                                 << INVOKESTATIC, 0, 35, ICONST2, IRETURN >>),
                      MethodInfo(33, 6, 4, 2,
                                 << GETSTATIC, 0, 14, ICONST4, INVOKEVIRTUAL, 0, 20,
                                    RETURN >>) >>) }

\* main keeps 4 in a local and 5 on its stack while g(1) runs; g keeps 3 on
\* its stack while h runs; h stores in its own locals and leaves values on
\* its own stack, or the same through invokespecial and invokevirtual on a
\* new object.
IsolationPrograms ==
    { JVMClassFile(<< MethodInfo(21, 6, 4, 4,
                                 << ICONST4, ISTORE1, ICONST5 >> \o recv
                                 \o << ICONST1, op, 0, 32, IRETURN >>),
                      MethodInfo(30, 18, 4, 3,
                                 << ICONST3, ICONST2, ISTORE1 >> \o recv
                                 \o << op, 0, 35, ISTORE0, RETURN >>),
                      MethodInfo(33, 6, 4, 2,
                                 << ICONST1, ISTORE0, ICONST2, ISTORE1, ICONST2,
                                    ICONST3, IADD, RETURN >>) >>) :
        recv \in { << >>, << OP_NEW, 0, 2 >> },
        op \in {INVOKEVIRTUAL, INVOKESPECIAL, INVOKESTATIC} }

\* Operands of the wrong type: a String or an Object where an Int is due, an
\* Int or a String where an objectref is due.
MistypedPairs ==
    { << PUSHRUNTIMECONSTANT, 40, ICONST1 >>, << ICONST1, PUSHRUNTIMECONSTANT, 40 >>,
      << GETSTATIC, 0, 14, ICONST1 >>, << ICONST0, PUSHRUNTIMECONSTANT, 40 >>,
      << PUSHRUNTIMECONSTANT, 40, ICONST0 >> }
MistypedPrograms ==
    { MainOnly(pre \o c) :
        pre \in MistypedPairs,
        c \in { << IADD, RETURN >>, << IMUL, RETURN >>, << IDIV, RETURN >>,
                << IFICOMPAREGREATEREQUAL, 0, 3, RETURN >>,
                << PUTFIELD, 0, 29, RETURN >> } }
    \cup { MainOnly(<< PUSHRUNTIMECONSTANT, 40, TABLESWITCH, 0 >>
                    \o S32(18) \o S32(0) \o S32(0) \o S32(18) \o << RETURN >>),
           MainOnly(<< ICONST1, GETFIELD, 0, 29, RETURN >>),
           MainOnly(<< PUSHRUNTIMECONSTANT, 40, GETFIELD, 0, 29, RETURN >>),
           MainOnly(<< PUSHRUNTIMECONSTANT, 40, ASTORE1, IINC, 1, 1, RETURN >>) }

\* ldc k; ireturn, for every k from 0 to one past the pool
LdcPrograms ==
    { MainOnly(<< PUSHRUNTIMECONSTANT, k, IRETURN >>) : k \in 0..(Len(Pool) + 1) }

\* A value, a receiver, some arguments, an invoke opcode on a methodref,
\* return.  The class declares f, g, h and <init> with max_locals ml.
Receivers == { << GETSTATIC, 0, 14 >>, << OP_NEW, 0, 2 >>, << ICONST4 >>, << >> }
Arguments == { << >>, << PUSHBYTE, 11 >>, << PUSHBYTE, 11, PUSHBYTE, 22 >> }
InvokeTargets == {25, 32, 35, 37, 8, 20, 38, 14}

InvokeClass(bytecode, ml) ==
    JVMClassFile(<< MethodInfo(21, 6, 4, 4, bytecode),
                    MethodInfo(22, 23, 2, ml, << ILOAD1, IRETURN >>),
                    MethodInfo(30, 18, 2, ml, << ILOAD0, IRETURN >>),
                    MethodInfo(33, 6, 2, ml, << RETURN >>),
                    MethodInfo(5, 18, 2, ml,
                               << ALOAD0, ILOAD1, PUTFIELD, 0, 29, RETURN >>) >>)

InvokePrograms ==
    { InvokeClass(<< ICONST5 >> \o recv \o args \o << op >> \o U16(target)
                  \o << RETURN >>, ml) :
        recv \in Receivers, args \in Arguments,
        op \in {INVOKEVIRTUAL, INVOKESPECIAL, INVOKESTATIC},
        target \in InvokeTargets, ml \in {1, 3, 4} }

\* Object creation, fields and output; every load and store; five pushes
\* in a method whose max_stack is 4; a field written by a constructor
\* through its receiver and read by the caller; two objects, one written
\* through a local and read through the stack, the other read unwritten; new
\* of two built-in classes, of a constant that is no class and of index 0;
\* an unsupported opcode; a method that runs off its end.
ScenarioPrograms ==
    { MainOnly(<< OP_NEW, 0, 2, DUP, INVOKESPECIAL, 0, 8, ASTORE1, ALOAD1,
                  PUSHBYTE, 42, PUTFIELD, 0, 29, GETSTATIC, 0, 14, ALOAD1,
                  GETFIELD, 0, 29, INVOKEVIRTUAL, 0, 20, RETURN >>),
      MainOnly(<< GETSTATIC, 0, 14, PUSHRUNTIMECONSTANT, 40,
                  INVOKEVIRTUAL, 0, 20, RETURN >>),
      MainOnly(<< ICONST1, ISTORE0, ILOAD0, ISTORE1, ILOAD1, ISTORE2, ILOAD2,
                  ISTORE3, ILOAD3, DUP, IADD, ISTORE0, ALOAD0, IRETURN >>),
      MainOnly(<< ICONST1, ICONST2, ICONST3, ICONST4, ICONST5, RETURN >>),
      MainOnly(<< OP_NEW, 0, 4, OP_NEW, 0, 16, OP_NEW, 0, 40, RETURN >>),
      MainOnly(<< ICONST1, ISTORE1, OP_NEW, 0, 0, RETURN >>),
      InvokeClass(<< OP_NEW, 0, 2, DUP, PUSHBYTE, 11, INVOKESPECIAL, 0, 37,
                     GETFIELD, 0, 29, IRETURN >>, 3),
      MainOnly(<< OP_NEW, 0, 2, DUP, ASTORE1, OP_NEW, 0, 2, PUSHBYTE, 7,
                  PUTFIELD, 0, 29, ALOAD1, PUSHBYTE, 9, PUTFIELD, 0, 29,
                  ALOAD1, PUSHBYTE, 8, PUTFIELD, 0, 29, GETFIELD, 0, 29,
                  IRETURN >>),
      MainOnly(<< OP_NEW, 0, 2, ASTORE1, OP_NEW, 0, 2, PUSHBYTE, 7,
                  PUTFIELD, 0, 29, ALOAD1, GETFIELD, 0, 29, IRETURN >>),
      MainOnly(<< ICONST2, 0 >>),
      MainOnly(<< ICONST0 >>),
      MainOnly(<< ALOAD0, GETFIELD, 0, 29, IRETURN >>) }

\* The sum of 0..9: acc = 0, i = 0; while i < 10 (left by if_icmpge against
\* bipush 10) acc = acc + i, iinc i by 1, goto back; println(acc).
LoopClass ==
    MainOnly(<< ICONST0, ISTORE1, ICONST0, ISTORE2,
                ILOAD2, PUSHBYTE, 10, IFICOMPAREGREATEREQUAL >> \o S16(13)
             \o << ILOAD1, ILOAD2, IADD, ISTORE1, IINC, 2, 1, GOTO >> \o S16(-13)
             \o << GETSTATIC, 0, 14, ILOAD1, INVOKEVIRTUAL, 0, 20, RETURN >>)
LoopPrograms == { LoopClass }

\* An opcode that takes operand bytes as the last byte of the code, or with
\* one operand byte of two, on an empty stack and on a stack of two values;
\* and loads and stores of a local past max_locals.
TruncatedPrograms ==
    { MainOnly(prefix \o << op >> \o operand) :
        prefix \in { << >>, << ICONST1, ICONST1 >> },
        op \in {PUSHBYTE, PUSHRUNTIMECONSTANT, ILOAD, ISTORE, IINC,
                IFICOMPAREGREATEREQUAL, GOTO, OP_NEW, GETFIELD, PUTFIELD,
                GETSTATIC, INVOKEVIRTUAL, INVOKESPECIAL, INVOKESTATIC},
        operand \in { << >>, << 0 >> } }
    \cup { MainOnly(<< ILOAD, 4, IRETURN >>),
           MainOnly(<< ICONST1, ISTORE, 4, RETURN >>),
           MainOnly(<< IINC, 4, 1, RETURN >>) }

\* Two methods named main, in a pool whose entry 33 is "main" too, so that
\* methodref 35 is Main.main ()V: the first main calls main and returns
\* what it gets, the second returns 2.
OverloadPrograms ==
    { [constant_pool |-> [Pool EXCEPT ![33] = Utf8("main")],
       this_class |-> 2,
       methods |-> << MethodInfo(21, 6, 4, 4, << INVOKESTATIC, 0, 35, IRETURN >>),
                      MethodInfo(21, 6, 4, 4, << ICONST2, IRETURN >>) >>] }

ClassFiles ==
    ArithPrograms \cup BipushPrograms \cup IincPrograms \cup ComparePrograms
    \cup GotoPrograms \cup SwitchPrograms \cup LdcPrograms \cup GetstaticPrograms
    \cup UnderflowPrograms \cup MistypedPrograms \cup UnknownPrograms
    \cup UnresolvedPrograms \cup NestedPrograms \cup DuplicatePrograms
    \cup IsolationPrograms \cup LoopPrograms \cup OverloadPrograms
    \cup InvokePrograms \cup ScenarioPrograms \cup FarPrograms

\* ------------------------------------------------------------------------
\* Specification
\* ------------------------------------------------------------------------
\* The state before execute_method is called.
Fresh ==
    /\ runtime = EmptyMap
    /\ heap = << >>
    /\ frames = << >>
    /\ stdout = << >>
    /\ result = NoResult
    /\ last = NoOp
    /\ written = << >>
    /\ exit = NotExited

Init ==
    /\ jvm \in ClassFiles
    /\ overflow_checks \in BOOLEAN
    /\ file = << >>
    /\ Fresh
    /\ run = 0
    /\ trace = << >>

Next ==
    \/ execute_method
    \/ main
    \/ LoopExit
    \/ \E k \in 0..5 : ICONST(k)
    \/ PushByte
    \/ PushRuntimeConstant
    \/ ILoad
    \/ \E k \in 0..3 : ILoadN(k)
    \/ \E k \in 0..1 : ALoadN(k)
    \/ IStore
    \/ \E k \in 0..3 : IStoreN(k)
    \/ AStore1
    \/ Dup
    \/ \E op \in {IADD, IMUL, IDIV} : IntegerOp(op)
    \/ IInc
    \/ TableSwitch
    \/ IfICompareGreaterEqual
    \/ Goto
    \/ IReturn
    \/ ReturnVoid
    \/ GetStatic
    \/ GetField
    \/ PutField
    \/ InvokeVirtual
    \/ InvokeSpecial
    \/ InvokeStatic
    \/ New
    \/ UnknownOpcode

Spec == Init /\ [][Next]_vars

\* The same class file run a second time, by the same build, in a new
\* process: first run recorded, everything but the file reset, second run
\* checked against the record.
InitTwoRuns ==
    /\ jvm \in ClassFiles
    /\ overflow_checks \in BOOLEAN
    /\ file = << >>
    /\ Fresh
    /\ run = 1
    /\ trace = << >>

run_again ==
    /\ run = 1
    /\ exit # NotExited
    /\ run' = 2
    /\ trace' = Append(trace, Snapshot)
    /\ runtime' = EmptyMap
    /\ heap' = << >>
    /\ frames' = << >>
    /\ stdout' = << >>
    /\ result' = NoResult
    /\ last' = NoOp
    /\ written' = << >>
    /\ exit' = NotExited
    /\ UNCHANGED << file, jvm, overflow_checks >>

NextTwoRuns == Next \/ run_again

\* The interpreter is one sequential loop: while a step is there to take it
\* takes it.  Run on the Loop scenario, on the scenarios that between them
\* use every opcode, and on the programs whose last instruction is cut
\* short.
InitFair ==
    /\ jvm \in LoopPrograms \cup ScenarioPrograms \cup TruncatedPrograms
                \cup { MainOnly(<< PUSHBYTE, 7, ISTORE, 1, ILOAD, 1, IRETURN >>),
                       MainOnly(SwitchCode(0, 1, << S32(0), S32(2) >>, FALSE)),
                       MainOnly(<< ICONST1, ICONST0, IDIV, IRETURN >>),
                       MainOnly(<< ICONST2, ICONST3, IMUL, IRETURN >>),
                       InvokeClass(<< PUSHBYTE, 11, PUSHBYTE, 22, INVOKESTATIC >>
                                   \o U16(25) \o << IRETURN >>, 3) }
    /\ overflow_checks \in BOOLEAN
    /\ file = << >>
    /\ Fresh
    /\ run = 0
    /\ trace = << >>

SpecFair == InitFair /\ [][Next]_vars /\ WF_vars(Next)

SpecTwoRuns == InitTwoRuns /\ [][NextTwoRuns]_vars

\* ------------------------------------------------------------------------
\* constant_pool_lookup on its own: every pool of up to MaxPool entries, and
\* every index from 0 to two past the longest pool, and the largest u16.
\* ------------------------------------------------------------------------
MaxPool == 3
PoolEntries == { Utf8("a"), Classref(1), Stringref(2) }
SmallPools == UNION { [1..n -> PoolEntries] : n \in 0..MaxPool }
LookupIndices == 0..(MaxPool + 2) \cup { 65535 }

InitLookup ==
    /\ jvm \in { [constant_pool |-> pool, this_class |-> 0, methods |-> << >>] :
                  pool \in SmallPools }
    /\ overflow_checks = FALSE
    /\ file = << >>
    /\ Fresh
    /\ run = 0
    /\ trace = << >>

\* A call of constant_pool_lookup(&jvm.constant_pool, i): the result holds
\* what it returned for i.
lookup ==
    \E i \in LookupIndices :
        /\ result' = [kind |-> "lookup",
                      value |-> constant_pool_lookup(jvm.constant_pool, i),
                      msg |-> "", args |-> << i >>]
        /\ UNCHANGED << file, jvm, overflow_checks, runtime, heap, frames, stdout,
                        last, written, exit, run, trace >>

SpecLookup == InitLookup /\ [][lookup]_vars

\* ------------------------------------------------------------------------
\* read_attribute on its own: one attribute of each kind, its declared
\* length the length of its body, or up to MaxSurplus more, or one less,
\* followed in the stream by the bytes of what comes next.
\* ------------------------------------------------------------------------
MaxSurplus == 2

AttributePool ==
    << Utf8(NameCode), Utf8(NameLineNumberTable), Utf8(NameSourceFile),
       Utf8(NameStackMapTable), Utf8(<< 88 >>), Classref(1) >>

LineNumberBodies ==
    { U16(0), U16(1) \o << 0, 0, 0, 1 >>, U16(2) \o << 0, 0, 0, 1, 0, 4, 0, 2 >> }
CodeBodies ==
    { U16(1) \o U16(1) \o S32(Len(bytecode)) \o bytecode
        \o U16(Len(table) \div 8) \o table
        \o (IF numbers = << >> THEN U16(0)
            ELSE U16(1) \o U16(2) \o S32(Len(numbers)) \o numbers) :
      bytecode \in { << >>, << 177 >>, << 3, 172 >> },
      table \in { << >>, << 0, 0, 0, 1, 0, 1, 0, 0 >> },
      numbers \in { << >> } \cup LineNumberBodies }
SourceFileBodies == { << >>, U16(5), << 0, 5, 9 >> }
StackMapBodies ==
    { U16(0),
      U16(1) \o << 0 >>,
      U16(1) \o << 64, 1 >>,
      U16(1) \o << 247, 0, 1, 7, 0, 2 >>,
      U16(2) \o << 0 >> \o << 251, 0, 3 >>,
      U16(1) \o << 252, 0, 3, 1 >>,
      U16(1) \o << 255, 0, 1, 0, 1, 1, 0, 1, 8, 0, 4 >>,
      U16(1) \o << 64, 9 >> }
Following == { << >>, << 9 >>, << 0, 3, 0, 0, 0, 0 >>, << 0, 3, 0, 0, 0, 0, 7, 7 >> }

AttributeBodies ==
    ({1} \X CodeBodies) \cup ({2} \X LineNumberBodies)
        \cup ({3} \X SourceFileBodies) \cup ({4} \X StackMapBodies)
        \cup ({0, 5, 6, 7} \X { U16(0) })

AttributeStreams ==
    { U16(a[1]) \o S32(Len(a[2]) + surplus) \o a[2] \o following :
      a \in { b \in AttributeBodies : b[2] # << >> },
      surplus \in -1..MaxSurplus, following \in Following }
    \cup { U16(3) \o S32(surplus) \o following :
           surplus \in 0..MaxSurplus, following \in Following }

InitAttribute ==
    /\ file \in AttributeStreams
    /\ jvm = [constant_pool |-> AttributePool, this_class |-> 0, methods |-> << >>]
    /\ overflow_checks = FALSE
    /\ Fresh
    /\ run = 0
    /\ trace = << >>

\* A call of read_attribute(&mut file, &constant_pool) at the start of the
\* stream: the result holds what it returned and, in args, how many bytes of
\* the stream it has consumed.
attribute ==
    /\ result = NoResult
    /\ LET read == read_attribute(file, [pos |-> 0, end |-> Len(file)],
                                  jvm.constant_pool)
       IN  result' = [kind |-> read.kind, value |-> read.v, msg |-> read.msg,
                      args |-> << read.r.pos >>]
    /\ UNCHANGED << file, jvm, overflow_checks, runtime, heap, frames, stdout,
                    last, written, exit, run, trace >>

SpecAttribute == InitAttribute /\ [][attribute]_vars

\* ------------------------------------------------------------------------
\* parse_class_file on its own: files made of a magic number, a version, a
\* count, up to MaxEntries constant-pool entries and what follows the pool;
\* the count is that of the entries plus one, or one less or more than that.
\* ------------------------------------------------------------------------
MaxEntries == 2

Magics ==
    { << 202, 254, 186, 190 >>, << 202, 254, 186, 191 >> }
EntryBytes ==
    { << 7, 0, 1 >>, << 8, 0, 1 >>, << 10, 0, 1, 0, 2 >>, << 9, 0, 1, 0, 2 >>,
      << 12, 0, 1, 0, 2 >>, << 1, 0, 4 >> \o NameCode, << 1, 0, 1, 255 >>,
      << 5, 0, 0, 0, 0, 0, 0, 0, 1 >>, << 6, 0, 0, 0, 0, 0, 0, 0, 0 >>,
      << 3, 0, 0, 0, 1 >> }
RECURSIVE Concat(_)
Concat(parts) == IF parts = << >> THEN << >> ELSE Head(parts) \o Concat(Tail(parts))
AfterPool ==
    { << >>,
      U16(33) \o U16(1) \o U16(0) \o U16(0) \o U16(0) \o U16(0) \o U16(0),
      U16(33) \o U16(1) \o U16(0) \o U16(1) \o U16(2)
        \o U16(1) \o U16(8) \o U16(1) \o U16(1) \o U16(0)
        \o U16(1) \o U16(9) \o U16(1) \o U16(1) \o U16(1)
        \o U16(1) \o S32(13) \o U16(1) \o U16(1) \o S32(1) \o << 177 >>
        \o U16(0) \o U16(0)
        \o U16(0) }
ClassBytes ==
    { magic \o U16(0) \o U16(52) \o U16(Len(entries) + 1 + more)
        \o Concat(entries) \o tail :
      magic \in Magics,
      entries \in UNION { [1..n -> EntryBytes] : n \in 0..MaxEntries },
      more \in -1..1,
      tail \in AfterPool }
    \cup { << >>, << 202, 254 >>, << 202, 254, 186, 190 >>, << 0, 0, 0, 0 >> }

InitParse ==
    /\ file \in ClassBytes
    /\ jvm = [constant_pool |-> << >>, this_class |-> 0, methods |-> << >>]
    /\ overflow_checks \in BOOLEAN
    /\ Fresh
    /\ run = 0
    /\ trace = << >>

\* A call of parse_class_file on the file: the result holds what it returned,
\* the class record in value when that is Ok.
parse ==
    /\ result = NoResult
    /\ LET read == parse_class_file(file, overflow_checks)
       IN  result' = [kind |-> read.kind, value |-> read.v, msg |-> read.msg,
                      args |-> << >>]
    /\ UNCHANGED << file, jvm, overflow_checks, runtime, heap, frames, stdout,
                    last, written, exit, run, trace >>

SpecParse == InitParse /\ [][parse]_vars

\* ------------------------------------------------------------------------
\* parse_method_descriptor on its own.  The input is made from descriptors:
\* file.text is the characters of '(' d1 ... dN ')' r for up to MaxParameters
\* descriptors file.parameters = << d1, ..., dN >> and file.return_type = r,
\* or a text that is not of that form, file.form saying which.
\* ------------------------------------------------------------------------
MaxParameters == 2

ClassNames == { << "a" >>, << "a", "/", "B" >> }
PlainDescriptors ==
    { << "Byte" >>, << "Char" >>, << "Double" >>, << "Float" >>, << "Int" >>,
      << "Long" >>, << "Short" >>, << "Boolean" >> }
        \cup { << "Object", name >> : name \in ClassNames }
FieldDescriptors ==
    PlainDescriptors
        \cup { << "Array", << "Int" >> >>, << "Array", << "Object", << "a" >> >> >>,
               << "Array", << "Array", << "Long" >> >> >> }
ReturnDescriptors == FieldDescriptors \cup { << "Void" >> }

\* The text of a descriptor (JVMS 4.3.2), written apart from the parser.
Letter(d) ==
    CASE d = << "Byte" >> -> "B" [] d = << "Char" >> -> "C"
      [] d = << "Double" >> -> "D" [] d = << "Float" >> -> "F"
      [] d = << "Int" >> -> "I" [] d = << "Long" >> -> "J"
      [] d = << "Short" >> -> "S" [] d = << "Boolean" >> -> "Z"
      [] d = << "Void" >> -> "V"
RECURSIVE Text(_)
Text(d) ==
    IF d[1] = "Object" THEN << "L" >> \o d[2] \o << ";" >>
    ELSE IF d[1] = "Array" THEN << "[" >> \o Text(d[2])
    ELSE << Letter(d) >>
RECURSIVE Texts(_)
Texts(ds) == IF ds = << >> THEN << >> ELSE Text(Head(ds)) \o Texts(Tail(ds))
MethodText(ds, r) == << "(" >> \o Texts(ds) \o << ")" >> \o Text(r)

ParameterLists == UNION { [1..n -> FieldDescriptors] : n \in 0..MaxParameters }
WellFormed ==
    { [form |-> "well-formed", text |-> MethodText(ds, r),
       parameters |-> ds, return_type |-> r] :
      ds \in ParameterLists, r \in ReturnDescriptors }
ArrayOfVoid ==
    { [form |-> "array of void",
       text |-> << "(" >> \o Texts(before) \o deep \o << "[", "V" >>
                  \o Texts(after) \o << ")", "V" >>,
       parameters |-> << >>, return_type |-> << >>] :
      before \in { << >>, << << "Int" >> >> },
      after \in { << >>, << << "Object", << "a" >> >> >> },
      deep \in { << >>, << "[" >> } }
    \cup { [form |-> "array of void",
            text |-> << "(" >> \o Texts(ds) \o << ")", "[", "V" >>,
            parameters |-> << >>, return_type |-> << >>] :
           ds \in { << >>, << << "Int" >> >> } }
NoOpenParen ==
    { [form |-> "no open paren", text |-> text,
       parameters |-> << >>, return_type |-> << >>] :
      text \in { << >>, << "I" >>, << ")", "V" >>, << "I", ")", "V" >>,
                 << "V" >>, << "[", "(", ")", "V" >> } }
Descriptors == WellFormed \cup ArrayOfVoid \cup NoOpenParen

InitDescriptor ==
    /\ file \in Descriptors
    /\ jvm = [constant_pool |-> << >>, this_class |-> 0, methods |-> << >>]
    /\ overflow_checks = FALSE
    /\ Fresh
    /\ run = 0
    /\ trace = << >>

\* A call of parse_method_descriptor on the text: the result holds what it
\* returned, the MethodDescriptor in value when that is Ok.
parse_descriptor ==
    /\ result = NoResult
    /\ LET parsed == parse_method_chars(file.text)
       IN  result' = [kind |-> IF parsed.ok THEN "ok" ELSE "err",
                      value |-> [parameters |-> parsed.parameters,
                                 return_type |-> parsed.return_type],
                      msg |-> "", args |-> << >>]
    /\ UNCHANGED << file, jvm, overflow_checks, runtime, heap, frames, stdout,
                    last, written, exit, run, trace >>

SpecDescriptor == InitDescriptor /\ [][parse_descriptor]_vars

\* ------------------------------------------------------------------------
\* The attribute runs of a jimage file (jimage/main.rs).  locations is the
\* blob as the sequence of its bytes.  A u64 is kept as its eight bytes,
\* the most significant first.
\* ------------------------------------------------------------------------
Zero64 == [k \in 1..8 |-> 0]

\* value = value << 8; value |= b & 0xff.  The shift drops the top byte and
\* leaves a low byte of 0, which the or replaces by b.
shift_in(value, b) == Tail(value) \o << b % 256 >>

\* read_value: [panic, value].  locations[offset + i] panics past the end.
RECURSIVE read_value_from(_, _, _, _, _)
read_value_from(i, length, locations, offset, value) ==
    IF i = length THEN [panic |-> FALSE, value |-> value]
    ELSE IF offset + i >= Len(locations) THEN [panic |-> TRUE, value |-> value]
    ELSE read_value_from(i + 1, length, locations, offset,
                         shift_in(value, locations[offset + i + 1]))

read_value(length, locations, offset) ==
    read_value_from(0, length, locations, offset, Zero64)

\* The while loop of decompress_entry: [panic, attributes].
RECURSIVE decompress_from(_, _, _)
decompress_from(locations, offset, attributes) ==
    IF offset >= Len(locations) THEN [panic |-> FALSE, attributes |-> attributes]
    ELSE IF locations[offset + 1] < 7
         THEN [panic |-> FALSE, attributes |-> attributes]
    ELSE the({ IF read.panic
               THEN [panic |-> TRUE, attributes |-> << >>]
               ELSE decompress_from(locations,
                                    offset + 1 + (locations[offset + 1] % 8) + 1,
                                    Append(attributes, read.value)) :
               read \in { read_value((locations[offset + 1] % 8) + 1,
                                          locations, offset + 1) } })

decompress_entry(locations, offset) == decompress_from(locations, offset, << >>)

\* The blobs a run is decoded from: every sequence of up to MaxBlob bytes
\* that end a run (0, 6), or start a value of one, two or eight bytes
\* (8 and 17, 9, 255), and two blobs with a value of eight bytes, each
\* decoded from every offset up to its end.
MaxBlob == 4
BlobBytes == {0, 6, 8, 9, 17, 255}

RECURSIVE Blobs(_)
Blobs(n) ==
    IF n = 0 THEN { << >> }
    ELSE Blobs(n - 1)
         \cup { Append(b, x) : b \in { c \in Blobs(n - 1) : Len(c) = n - 1 },
                                x \in BlobBytes }

LongBlobs ==
    { << 8, 1, 7, 1, 2, 3, 4, 5, 6, 7, 8, 0, 9 >>,
      << 255, 255, 254, 253, 252, 251, 250, 249, 248, 10, 1, 2, 3 >> }

InitJimage ==
    /\ file \in { [locations |-> b, offset |-> o] :
                    b \in Blobs(MaxBlob) \cup LongBlobs, o \in 0..(MaxBlob + 1) }
    /\ file.offset <= Len(file.locations)
    /\ jvm = [constant_pool |-> << >>, this_class |-> 0, methods |-> << >>]
    /\ overflow_checks = FALSE
    /\ Fresh
    /\ run = 0
    /\ trace = << >>

\* A call of decompress_entry: the result holds what it returned, the
\* attributes in value, or that it panicked.
decompress ==
    /\ result = NoResult
    /\ LET r == decompress_entry(file.locations, file.offset)
       IN  result' = [kind |-> IF r.panic THEN "panic" ELSE "ok",
                      value |-> r.attributes,
                      msg |-> IF r.panic THEN "index out of bounds" ELSE "",
                      args |-> << >>]
    /\ UNCHANGED << file, jvm, overflow_checks, runtime, heap, frames, stdout,
                    last, written, exit, run, trace >>

SpecJimage == InitJimage /\ [][decompress]_vars

\* ------------------------------------------------------------------------
\* Properties
\* ------------------------------------------------------------------------
\* What the statements below are phrased with: the instruction a state is
\* about to dispatch, the same frame one step later, and the arithmetic of
\* the Java Virtual Machine Specification.
About(op) == InCode /\ Op = op
StillRunning == result'.kind = "running" /\ Len(frames') >= Len(frames)
After == frames'[Len(frames)]
Below(stack, n) == SubSeq(stack, 1, Len(stack) - n)

SignExtend8(x) == IF x >= 128 THEN x - 256 ELSE x
Signed16(b1, b2) ==
    IF b1 * 256 + b2 >= 32768 THEN b1 * 256 + b2 - 65536 ELSE b1 * 256 + b2

\* The quotient of a by b, rounded toward zero.
Quotient(a, b) ==
    CHOOSE q \in -256..256 :
        /\ (IF q < 0 THEN -q ELSE q) * (IF b < 0 THEN -b ELSE b)
              <= (IF a < 0 THEN -a ELSE a)
        /\ (IF a < 0 THEN -a ELSE a)
              < ((IF q < 0 THEN -q ELSE q) + 1) * (IF b < 0 THEN -b ELSE b)
        /\ (q # 0 => ((q < 0) <=> ((a < 0) # (b < 0))))

Expected(op, a, b) ==
    CASE op = IADD -> a + b
      [] op = IMUL -> a * b
      [] op = IDIV -> Quotient(a, b)

\* The two Ints on top of the stack: Int(a) pushed first, Int(b) on top.
TwoInts ==
    /\ Len(F.stack) >= 2
    /\ F.stack[Len(F.stack)].t = "Int"
    /\ F.stack[Len(F.stack) - 1].t = "Int"
OperandA == F.stack[Len(F.stack) - 1].i
OperandB == F.stack[Len(F.stack)].i

\* C1: iadd, imul and idiv on a stack ending in Int(a), Int(b) (b on top, and
\* b non-zero for idiv) pop both and push Int(a op b); for idiv that is a
\* divided by b.
C1_BinaryOpPushesAOpB ==
    [][\A op \in {IADD, IMUL, IDIV} :
          (About(op) /\ TwoInts /\ (op = IDIV => OperandB # 0))
          => /\ StillRunning
             /\ After.stack = Append(Below(F.stack, 2),
                                     IntV(Expected(op, OperandA, OperandB)))]_vars

\* C2: idiv on a stack ending in Int(a), Int(0) ends the top-level invocation
\* with an Err result: no success, no abort.
C2_DivisionByZeroIsErr ==
    [][(About(IDIV) /\ TwoInts /\ OperandB = 0) => result'.kind = "err"]_vars

\* C3: bipush pushes Int of the operand byte sign-extended from 8 bits, and
\* pc advances by 2.
C3_BipushSignExtends ==
    [][(About(PUSHBYTE) /\ HasByte(F.pc + 1))
       => /\ StillRunning
          /\ After = [F EXCEPT !.stack = Append(@, IntV(SignExtend8(CodeAt(F.pc + 1)))),
                               !.pc = @ + 2]]_vars

\* C4: iinc n c on locals[n] = Int(i) sets locals[n] to Int(i + signed c); the
\* stack and the other locals stay and pc advances by 3.
C4_IincAddsSignedByte ==
    [][(/\ About(IINC)
        /\ HasByte(F.pc + 2)
        /\ CodeAt(F.pc + 1) < Len(F.locals)
        /\ F.locals[CodeAt(F.pc + 1) + 1].t = "Int")
       => /\ StillRunning
          /\ After = [F EXCEPT
                        !.locals[CodeAt(F.pc + 1) + 1] =
                            IntV(@.i + SignExtend8(CodeAt(F.pc + 2))),
                        !.pc = @ + 3]]_vars

\* C5: if_icmpge at p on a stack ending in Int(a), Int(b) pops both and sets
\* pc to p + signed16(operand) when a >= b and to p + 3 otherwise.
C5_IfIcmpgeTarget ==
    [][(About(IFICOMPAREGREATEREQUAL) /\ HasByte(F.pc + 2) /\ TwoInts)
       => /\ StillRunning
          /\ After = [F EXCEPT
                        !.stack = Below(@, 2),
                        !.pc = IF OperandA >= OperandB
                               THEN @ + Signed16(CodeAt(F.pc + 1), CodeAt(F.pc + 2))
                               ELSE @ + 3]]_vars

\* C6: goto at p sets pc to p + signed16(operand), counted from the address
\* of the opcode; stack and locals stay.
C6_GotoTarget ==
    [][(About(GOTO) /\ HasByte(F.pc + 2))
       => /\ StillRunning
          /\ After = [F EXCEPT
                        !.pc = @ + Signed16(CodeAt(F.pc + 1), CodeAt(F.pc + 2))]]_vars

\* A 32-bit word of the code as the pair of its 16-bit halves, the order of
\* unsigned words, and the displacement a word encodes.
Halves(i) == << CodeAt(i) * 256 + CodeAt(i + 1), CodeAt(i + 2) * 256 + CodeAt(i + 3) >>
AtMost(v, w) == v[1] < w[1] \/ (v[1] = w[1] /\ v[2] <= w[2])
HalvesOf(i) == << i \div 65536, i % 65536 >>
Displacement(w) ==
    IF w[1] >= 32768 THEN (w[1] - 65536) * 65536 + w[2] ELSE w[1] * 65536 + w[2]

\* The tableswitch at F.pc: where its default word starts, its low and high,
\* whether the whole table lies inside the code, and the word it selects for
\* the Int on top of the stack.
SwitchBase == CHOOSE b \in (F.pc + 1)..(F.pc + 4) : b % 4 = 0
SwitchLow == Halves(SwitchBase + 4)
SwitchHigh == Halves(SwitchBase + 8)
SwitchComplete ==
    /\ HasByte(SwitchBase + 11)
    /\ AtMost(SwitchLow, SwitchHigh)
          => /\ SwitchHigh[1] = SwitchLow[1]
             /\ HasByte(SwitchBase + 12 + 4 * (SwitchHigh[2] - SwitchLow[2] + 1) - 1)
SwitchSelected ==
    LET i == Top(F).i
    IN  IF i >= 0 /\ AtMost(SwitchLow, HalvesOf(i)) /\ AtMost(HalvesOf(i), SwitchHigh)
        THEN Halves(SwitchBase + 12 + 4 * (i - SwitchLow[2]))
        ELSE Halves(SwitchBase)

\* C7: tableswitch at p, its default word at the first multiple of 4 at or
\* after p + 1 and its table inside the code, pops Int(i) and sets pc to
\* p + offsets[i - low] when low <= i <= high and to p + default otherwise.
C7_TableSwitchTarget ==
    [][(/\ About(TABLESWITCH)
        /\ SwitchComplete
        /\ F.stack # << >>
        /\ Top(F).t = "Int")
       => /\ StillRunning
          /\ After = [F EXCEPT !.stack = Below(@, 1),
                               !.pc = @ + Displacement(SwitchSelected)]]_vars

\* A tableswitch behind one to three bytes of padding has taken the arm of
\* its second table entry.
C7_Witness ==
    /\ Running
    /\ last.op = TABLESWITCH
    /\ last.pc % 4 # 3
    /\ InCode
    /\ Op = ICONST2

\* C8: ldc k pushes String(text) whenever pool entry k, 1 <= k <= pool.len(),
\* is a StringRef whose target holds Utf8(text).
C8_LdcPushesString ==
    [][(/\ About(PUSHRUNTIMECONSTANT)
        /\ HasByte(F.pc + 1)
        /\ CodeAt(F.pc + 1) \in 1..Len(jvm.constant_pool)
        /\ jvm.constant_pool[CodeAt(F.pc + 1)].tag = "Stringref"
        /\ jvm.constant_pool[CodeAt(F.pc + 1)].a \in 1..Len(jvm.constant_pool)
        /\ jvm.constant_pool[jvm.constant_pool[CodeAt(F.pc + 1)].a].tag = "Utf8")
       => /\ StillRunning
          /\ After.stack =
               Append(F.stack,
                      StringV(jvm.constant_pool[jvm.constant_pool[CodeAt(F.pc + 1)].a].s))]_vars

\* The method an invoke instruction at F.pc names: the texts its methodref
\* leads to, and the number of parameters of its descriptor.
Named ==
    LET pool == jvm.constant_pool
        ref == pool[CodeAt(F.pc + 1) * 256 + CodeAt(F.pc + 2)]
    IN  [class |-> pool[pool[ref.a].a].s,
         name |-> pool[pool[ref.b].a].s,
         N |-> Len(parse_method_descriptor(pool[pool[ref.b].b].s).parameters)]
Entered == Len(frames') = Len(frames) + 1
Callee == frames'[Len(frames')]

\* C9: invokevirtual of a method with N parameters on a stack ending in
\* r, p1, ..., pN takes those N + 1 values off the caller's stack and enters
\* the method of that name in the class the methodref names, with
\* locals[0] = r and locals[k] = pk.
C9_InvokeVirtualLocals ==
    [][(About(INVOKEVIRTUAL) /\ Entered)
       => /\ After.stack = Below(F.stack, Named.N + 1)
          /\ Named.class = jvm.constant_pool[jvm.constant_pool[jvm.this_class].a].s
          /\ jvm.constant_pool[jvm.methods[Callee.method].name_index].s = Named.name
          /\ Len(Callee.locals) >= Named.N + 1
          /\ \A k \in 0..Named.N :
                Callee.locals[k + 1] = F.stack[Len(F.stack) - Named.N + k]]_vars

\* Main.f(II)I has been entered by invokevirtual on System.out, a
\* PrintStream, with 11 and 22.
C9_Witness ==
    /\ Len(frames) = 2
    /\ last.op = INVOKEVIRTUAL
    /\ F.pc = 0
    /\ jvm.constant_pool[jvm.methods[F.method].name_index].s = "f"
    /\ F.locals[1] = ObjectV(StdoutHandle)
    /\ F.locals[2] = IntV(11)
    /\ F.locals[3] = IntV(22)

\* C10: a bytecode method entered by invokevirtual, invokespecial or
\* invokestatic has max_locals locals: the arguments first, Int(0) in every
\* slot after them.
C10_CalleeLocalsFilled ==
    [][\A op \in {INVOKEVIRTUAL, INVOKESPECIAL, INVOKESTATIC} :
          (About(op) /\ Entered)
          => LET arguments == IF op = INVOKESTATIC THEN Named.N ELSE Named.N + 1
             IN  /\ Len(Callee.locals) = jvm.methods[Callee.method].max_locals
                 /\ \A k \in (arguments + 1)..Len(Callee.locals) :
                       Callee.locals[k] = IntV(0)]_vars

\* A callee about to hand a value back to its caller: the value, the caller,
\* and the invoke opcode the caller is stopped at.
Completes == Len(frames) >= 2 /\ Len(frames') = Len(frames) - 1
Returned == IF About(IRETURN) THEN Top(F) ELSE VoidV
Caller == frames[Len(frames) - 1]
CallerOp == jvm.methods[Caller.method].code[Caller.pc + 1]
Popped11(op) == IF op = INVOKESTATIC THEN Named.N ELSE Named.N + 1

\* C11: an invokevirtual or invokestatic that completes with v leaves the
\* caller with its stack less the popped arguments, plus v when v is not
\* Void; the caller's locals are unchanged and its pc is 3 further.  Stated
\* over the steps of a call: entering the callee takes the arguments and
\* nothing else, the callee's steps leave the caller's frame alone, the
\* return pushes v unless Void and adds 3 to pc, and a native (which returns
\* Void) does all of it in one step.
C11_InvokeLeavesCaller ==
    [][/\ \A op \in {INVOKEVIRTUAL, INVOKESTATIC} :
            /\ (About(op) /\ Entered)
                  => After = [F EXCEPT !.stack = Below(@, Popped11(op))]
            /\ (About(op) /\ StillRunning /\ ~Entered)
                  => After = [F EXCEPT !.stack = Below(@, Popped11(op)),
                                       !.pc = @ + 3]
       /\ (Len(frames) >= 2 /\ Len(frames') >= Len(frames))
             => SubSeq(frames', 1, Len(frames) - 1) = SubSeq(frames, 1, Len(frames) - 1)
       /\ (Completes /\ CallerOp \in {INVOKEVIRTUAL, INVOKESTATIC})
             => frames'[Len(frames')] =
                   [Caller EXCEPT !.stack = IF Returned.t = "Void" THEN @
                                            ELSE Append(@, Returned),
                                  !.pc = @ + 3]]_vars

\* Main.f(II)I, entered by the invokevirtual at 8 with 11 and 22 above an
\* Int(5), has returned 11 to main.
C11_Witness ==
    /\ Len(frames) = 1
    /\ Running
    /\ last.op = IRETURN
    /\ last.depth = 2
    /\ F.pc = 11
    /\ CodeAt(8) = INVOKEVIRTUAL
    /\ F.stack = << IntV(5), IntV(11) >>

\* C12: a bytecode method whose pc has left the code without an ireturn or
\* return (by falling through or by a jump) ends the invocation with a fatal
\* error, not with a successful Void.
C12_FallthroughIsFatal ==
    [][(Running /\ ~InCode) => result'.kind \in {"err", "panic"}]_vars

\* C13: in every state the operand stack of every frame is at most max_stack
\* of the frame's method deep.
C13_StackWithinMaxStack ==
    \A k \in 1..Len(frames) :
        Len(frames[k].stack) <= jvm.methods[frames[k].method].max_stack

\* The field a getfield or putfield at F.pc names.
FieldNamed ==
    LET pool == jvm.constant_pool
    IN  pool[pool[pool[CodeAt(F.pc + 1) * 256 + CodeAt(F.pc + 2)].b].a].s

\* C14: object handles are shared, not copied.  dup, aload, astore and the
\* passing of receiver and parameters hand on the handle itself and create
\* no object; a putfield through a handle changes that one field of that one
\* object and no other object; a getfield through a handle reads the object
\* the handle denotes, in whichever frame it runs; and only putfield changes
\* an existing object.
C14_HandlesAreShared ==
    [][/\ (About(DUP) /\ StillRunning)
             => After.stack = Append(F.stack, Top(F)) /\ heap' = heap
       /\ \A k \in 0..1 :
             (About(ALOAD0 + k) /\ StillRunning)
                => After.stack = Append(F.stack, F.locals[k + 1]) /\ heap' = heap
       /\ (About(ASTORE1) /\ StillRunning)
             => After.locals[2] = Top(F) /\ heap' = heap
       /\ \A op \in {INVOKEVIRTUAL, INVOKESPECIAL, INVOKESTATIC} :
             (About(op) /\ Entered)
                => /\ heap' = heap
                   /\ \A k \in 1..(IF op = INVOKESTATIC THEN Named.N ELSE Named.N + 1) :
                         Callee.locals[k] =
                            F.stack[Len(F.stack)
                                    - (IF op = INVOKESTATIC THEN Named.N ELSE Named.N + 1)
                                    + k]
       /\ (About(PUTFIELD) /\ StillRunning)
             => LET h == F.stack[Len(F.stack) - 1].i
                IN  /\ heap'[h].fields[FieldNamed] = Top(F)
                    /\ heap'[h].class = heap[h].class
                    /\ \A f \in DOMAIN heap[h].fields \ {FieldNamed} :
                          heap'[h].fields[f] = heap[h].fields[f]
                    /\ Len(heap') = Len(heap)
                    /\ \A g \in (1..Len(heap)) \ {h} : heap'[g] = heap[g]
                    /\ After.locals = F.locals
                    /\ SubSeq(frames', 1, Len(frames) - 1)
                          = SubSeq(frames, 1, Len(frames) - 1)
       /\ (About(GETFIELD) /\ StillRunning)
             => After.stack = Append(Below(F.stack, 1),
                                     heap[Top(F).i].fields[FieldNamed])
       /\ ~About(PUTFIELD) => SubSeq(heap', 1, Len(heap)) = heap]_vars

\* The constructor Main.<init>(I)V has written 11 to x through its receiver
\* in its own frame, and main has read 11 back through the copy that dup
\* left on its stack.
C14_Witness ==
    /\ Len(frames) = 1
    /\ Running
    /\ last.op = GETFIELD
    /\ last.pc = 9
    /\ CodeAt(3) = DUP
    /\ CodeAt(6) = INVOKESPECIAL
    /\ F.stack = << IntV(11) >>

\* The constant a new at F.pc names, and the class name it resolves to.
NewEntry == constant_pool_lookup(jvm.constant_pool,
                                 CodeAt(F.pc + 1) * 256 + CodeAt(F.pc + 2))
NewClassName == jvm.constant_pool[NewEntry.a].s
NewResolves ==
    /\ HasByte(F.pc + 2)
    /\ NewEntry.tag = "Classref"
    /\ NewEntry.a \in 1..Len(jvm.constant_pool)
    /\ jvm.constant_pool[NewEntry.a].tag = "Utf8"
    /\ NewClassName \in DOMAIN runtime

\* C15: new of a class the runtime holds pushes one Object handle that no
\* handle in existence equals, on an object of that class with no fields;
\* every existing object, the locals and the rest of the stack stay.
C15_NewIsFresh ==
    [][(About(OP_NEW) /\ NewResolves)
       => /\ StillRunning
          /\ Len(After.stack) = Len(F.stack) + 1
          /\ Below(After.stack, 1) = F.stack
          /\ Top(After).t = "Object"
          /\ Top(After).i \notin 1..Len(heap)
          /\ Top(After).i \in 1..Len(heap')
          /\ heap'[Top(After).i] = [class |-> NewClassName, fields |-> << >>]
          /\ SubSeq(heap', 1, Len(heap)) = heap
          /\ After.locals = F.locals
          /\ After.pc = F.pc + 3
          /\ SubSeq(frames', 1, Len(frames) - 1) = SubSeq(frames, 1, Len(frames) - 1)]_vars

\* Two executions of new have left two different handles on the stack, the
\* second on a java/io/PrintStream other than System.out.
C15_Witness ==
    /\ Running
    /\ last.op = OP_NEW
    /\ Len(F.stack) = 2
    /\ F.stack[1].t = "Object"
    /\ F.stack[2].t = "Object"
    /\ F.stack[1].i # F.stack[2].i
    /\ F.stack[2].i # StdoutHandle
    /\ heap[F.stack[2].i].class = "java/io/PrintStream"

\* The Fieldref a getfield or putfield at F.pc names leads to a field name.
FieldResolves ==
    LET pool == jvm.constant_pool
        ref == constant_pool_lookup(pool, CodeAt(F.pc + 1) * 256 + CodeAt(F.pc + 2))
        nt == constant_pool_lookup(pool, ref.b)
    IN  /\ HasByte(F.pc + 2)
        /\ ref.tag = "Fieldref"
        /\ nt.tag = "NameAndType"
        /\ constant_pool_lookup(pool, nt.a).tag = "Utf8"

\* C16: putfield pops the value, then the objectref, and binds the field
\* name to the value in that object; a getfield of a field of an object
\* pushes, in place of the objectref, the value of the latest putfield of
\* that field of that object, so a later putfield replaces an earlier one.
C16_FieldRoundTrip ==
    [][/\ (/\ About(PUTFIELD)
           /\ FieldResolves
           /\ Len(F.stack) >= 2
           /\ F.stack[Len(F.stack) - 1].t = "Object")
          => /\ StillRunning
             /\ After = [F EXCEPT !.stack = Below(@, 2), !.pc = @ + 3]
             /\ heap'[F.stack[Len(F.stack) - 1].i].fields[FieldNamed] = Top(F)
       /\ (/\ About(GETFIELD)
           /\ FieldResolves
           /\ F.stack # << >>
           /\ Top(F).t = "Object"
           /\ << Top(F).i, FieldNamed >> \in DOMAIN written)
          => /\ StillRunning
             /\ After = [F EXCEPT
                           !.stack = Append(Below(@, 1),
                                            written[<< Top(F).i, FieldNamed >>]),
                           !.pc = @ + 3]]_vars

\* x of one object was put 9, then 8, x of another object 7; getfield on
\* the first has pushed 8.
C16_Witness ==
    /\ Running
    /\ last.op = GETFIELD
    /\ F.stack = << IntV(8) >>
    /\ written = (<< 2, "x" >> :> IntV(8)) @@ (<< 3, "x" >> :> IntV(7))

\* The class and the field a getstatic at F.pc names.
StaticRef ==
    LET pool == jvm.constant_pool
        ref == constant_pool_lookup(pool, CodeAt(F.pc + 1) * 256 + CodeAt(F.pc + 2))
        class == constant_pool_lookup(pool, ref.a)
        nt == constant_pool_lookup(pool, ref.b)
    IN  [ok |-> /\ HasByte(F.pc + 2)
                /\ ref.tag = "Fieldref"
                /\ class.tag = "Classref"
                /\ constant_pool_lookup(pool, class.a).tag = "Utf8"
                /\ nt.tag = "NameAndType"
                /\ constant_pool_lookup(pool, nt.a).tag = "Utf8",
         class |-> constant_pool_lookup(pool, class.a).s,
         field |-> constant_pool_lookup(pool, nt.a).s]
StaticBound ==
    /\ StaticRef.class \in DOMAIN runtime
    /\ StaticRef.field \in DOMAIN runtime[StaticRef.class].fields

\* C17: getstatic of (C, f) pushes the value bound to f in C's static fields
\* when C is registered and has f, the stack one longer and pc 3 further;
\* when C is unknown or has no f it is an error and nothing is pushed.  The
\* static fields do not change while a method runs, so two reads of
\* System.out push the same handle.
C17_GetStatic ==
    [][/\ (About(GETSTATIC) /\ StaticRef.ok /\ StaticBound)
          => /\ StillRunning
             /\ After = [F EXCEPT
                           !.stack = Append(@, runtime[StaticRef.class]
                                                  .fields[StaticRef.field]),
                           !.pc = @ + 3]
       /\ (About(GETSTATIC) /\ StaticRef.ok /\ ~StaticBound)
          => result'.kind = "err" /\ frames' = << >>
       /\ Running => runtime' = runtime]_vars

\* Two getstatic of System.out have pushed the same PrintStream handle.
C17_Witness ==
    /\ Running
    /\ last.op = GETSTATIC
    /\ last.pc = 4
    /\ F.pc = 7
    /\ F.stack = << IntV(5), ObjectV(StdoutHandle), ObjectV(StdoutHandle) >>
    /\ heap[StdoutHandle].class = "java/io/PrintStream"

\* The Methodref an invoke at F.pc names leads to a class name, a method
\* name and a descriptor that parses.
MethodResolves ==
    LET pool == jvm.constant_pool
        ref == constant_pool_lookup(pool, CodeAt(F.pc + 1) * 256 + CodeAt(F.pc + 2))
        class == constant_pool_lookup(pool, ref.a)
        nt == constant_pool_lookup(pool, ref.b)
        descriptor == constant_pool_lookup(pool, nt.b)
    IN  /\ HasByte(F.pc + 2)
        /\ ref.tag = "Methodref"
        /\ class.tag = "Classref"
        /\ constant_pool_lookup(pool, class.a).tag = "Utf8"
        /\ nt.tag = "NameAndType"
        /\ constant_pool_lookup(pool, nt.a).tag = "Utf8"
        /\ descriptor.tag = "Utf8"
        /\ parse_method_descriptor(descriptor.s).ok

\* The instruction at F.pc is whole (its operand bytes lie in the code and
\* its constant resolves), and the number of values it pops; -1 for an
\* instruction that pops nothing or is not whole.
Pops ==
    CASE Op \in {IADD, IMUL, IDIV} -> 2
      [] Op \in {ISTORE0, ISTORE1, ISTORE2, ISTORE3, ASTORE1, DUP, IRETURN} -> 1
      [] Op = ISTORE -> IF HasByte(F.pc + 1) THEN 1 ELSE -1
      [] Op = IFICOMPAREGREATEREQUAL -> IF HasByte(F.pc + 2) THEN 2 ELSE -1
      [] Op = TABLESWITCH -> IF SwitchComplete THEN 1 ELSE -1
      [] Op = GETFIELD -> IF FieldResolves THEN 1 ELSE -1
      [] Op = PUTFIELD -> IF FieldResolves THEN 2 ELSE -1
      [] Op = INVOKESTATIC -> IF MethodResolves THEN Named.N ELSE -1
      [] Op \in {INVOKEVIRTUAL, INVOKESPECIAL} ->
           IF MethodResolves THEN Named.N + 1 ELSE -1
      [] OTHER -> -1

\* C18: an opcode that pops more values than the operand stack of its frame
\* holds ends the top-level invocation with an error result: no frame is
\* left, so nothing is taken from a caller's stack and nothing runs on.
C18_UnderflowIsErr ==
    [][(InCode /\ Len(F.stack) < Pops)
       => /\ result'.kind = "err"
          /\ frames' = << >>
          /\ UNCHANGED << heap, stdout >>]_vars

\* iadd on the empty stack of h()V, called by a main that holds a value, has
\* ended the run with "Stack underflow".
C18_Witness ==
    /\ result.kind = "err"
    /\ result.msg = "Stack underflow"
    /\ frames = << >>
    /\ last.op = IADD
    /\ last.depth = 2

\* The instruction at F.pc is whole, its operands are on the stack (or in
\* the local), and one of them is not of the type the opcode works on.
Mistyped ==
    CASE Op \in {IADD, IMUL, IDIV} ->
           /\ Len(F.stack) >= 2
           /\ Top(F).t # "Int" \/ F.stack[Len(F.stack) - 1].t # "Int"
      [] Op = IFICOMPAREGREATEREQUAL ->
           /\ HasByte(F.pc + 2)
           /\ Len(F.stack) >= 2
           /\ Top(F).t # "Int" \/ F.stack[Len(F.stack) - 1].t # "Int"
      [] Op = IINC ->
           /\ HasByte(F.pc + 2)
           /\ CodeAt(F.pc + 1) < Len(F.locals)
           /\ F.locals[CodeAt(F.pc + 1) + 1].t # "Int"
      [] Op = TABLESWITCH ->
           SwitchComplete /\ F.stack # << >> /\ Top(F).t # "Int"
      [] Op = GETFIELD ->
           FieldResolves /\ F.stack # << >> /\ Top(F).t # "Object"
      [] Op = PUTFIELD ->
           /\ FieldResolves
           /\ Len(F.stack) >= 2
           /\ F.stack[Len(F.stack) - 1].t # "Object"
      [] Op \in {INVOKEVIRTUAL, INVOKESPECIAL} ->
           /\ MethodResolves
           /\ Len(F.stack) >= Named.N + 1
           /\ F.stack[Len(F.stack) - Named.N].t # "Object"
      [] OTHER -> FALSE

\* C19: an operand of the wrong runtime type is a fatal error: the
\* invocation ends with an error and nothing is pushed.
C19_WrongTypeIsErr ==
    [][(InCode /\ Mistyped)
       => /\ result'.kind = "err"
          /\ frames' = << >>
          /\ UNCHANGED << heap, stdout >>]_vars

\* if_icmpge on a String above an Int has ended the run with an error.
C19_Witness ==
    /\ result.kind = "err"
    /\ result.msg = "invalid compare of non-int"
    /\ frames = << >>
    /\ last.op = IFICOMPAREGREATEREQUAL
    /\ jvm.methods[1].code =
          << ICONST1, PUSHRUNTIMECONSTANT, 40, IFICOMPAREGREATEREQUAL, 0, 3, RETURN >>

\* The opcode bytes the dispatch has an arm for: iconst_0..5, bipush, ldc,
\* iload, iload_0..3, aload_0..1, istore, istore_0..3, astore_1, dup, iadd,
\* imul, idiv, iinc, if_icmpge, goto, tableswitch, ireturn, return,
\* getstatic, getfield, putfield, invokevirtual, invokespecial,
\* invokestatic, new.
OpcodeBytes ==
    (3 .. 8) \cup { 16, 18, 21 } \cup (26 .. 29) \cup { 42, 43, 54 }
    \cup (59 .. 62) \cup { 76, 89, 96, 104, 108, 132, 162, 167, 170, 172, 177,
                           178, 180, 181, 182, 183, 184, 187 }

\* C20: a byte at the program counter that is no supported opcode ends the
\* invocation with an error naming the pc and the opcode; the step changes no
\* object and writes no output, and nothing runs after it.
C20_UnknownOpcodeIsErr ==
    [][(InCode /\ Op \notin OpcodeBytes)
       => /\ result'.kind = "err"
          /\ result'.msg = "Unknown opcode"
          /\ result'.args = << F.pc, Op >>
          /\ frames' = << >>
          /\ UNCHANGED << heap, stdout, written >>]_vars

\* Byte 255 at pc 0 of a method called from main has ended the run, the
\* object main allocated still on the heap.
C20_Witness ==
    /\ result.kind = "err"
    /\ result.msg = "Unknown opcode"
    /\ result.args = << 0, 255 >>
    /\ frames = << >>
    /\ last.depth = 2
    /\ Len(heap) = 2

\* The invoke at F.pc has both operand bytes and its index is outside the
\* pool, or is no Methodref, or names a class that is not registered or a
\* method that class does not have.
Unresolvable ==
    LET pool == jvm.constant_pool
        index == CodeAt(F.pc + 1) * 256 + CodeAt(F.pc + 2)
        ref == pool[index]
        class_text == pool[pool[ref.a].a].s
        method_text == pool[pool[ref.b].a].s
    IN  /\ Op \in {INVOKEVIRTUAL, INVOKESPECIAL, INVOKESTATIC}
        /\ HasByte(F.pc + 2)
        /\ \/ index \notin 1..Len(pool)
           \/ ref.tag # "Methodref"
           \/ class_text \notin DOMAIN runtime
           \/ method_text \notin DOMAIN runtime[class_text].methods

\* C21: an invoke whose methodref cannot be resolved to a method of a
\* registered class ends the run with an error: it does not go on, enters no
\* callee, and writes nothing.
C21_UnresolvedInvokeIsErr ==
    [][(InCode /\ Unresolvable)
       => /\ result'.kind = "err"
          /\ frames' = << >>
          /\ UNCHANGED << heap, stdout, written >>]_vars

\* invokestatic of Missing.h, a class nobody registers, has ended the run.
C21_Witness ==
    /\ result.kind = "err"
    /\ result.msg = "error invoking method"
    /\ frames = << >>
    /\ last.op = INVOKESTATIC
    /\ jvm.methods[1].code = << INVOKESTATIC, 0, 45, ICONST3, IRETURN >>

\* The instruction at F.pc is one the statements above show to fail: too
\* few operands, an operand of the wrong type, an invoke that cannot be
\* resolved, or a byte that is no opcode.
Erroneous ==
    \/ Len(F.stack) < Pops
    \/ Mistyped
    \/ Unresolvable
    \/ Op \notin OpcodeBytes

\* C22: an error is final.  The step that fails, at whatever depth, ends
\* every frame and leaves the error as the result without printing or writing
\* a field; after it nothing at all happens.
C22_ErrorsPropagate ==
    [][/\ (InCode /\ Erroneous) => result'.kind = "err"
       /\ result'.kind = "err"
             => frames' = << >> /\ UNCHANGED << heap, stdout, written >>
       /\ result.kind = "err"
             => UNCHANGED << frames, result, heap, stdout, written, last >>]_vars

\* An unknown byte in h, called from g, called from main, has ended the run
\* after main's first line and before g's and main's later ones.
C22_Witness ==
    /\ result.kind = "err"
    /\ result.msg = "Unknown opcode"
    /\ frames = << >>
    /\ last.depth = 3
    /\ Len(stdout) = 1

\* C23: the process exit status is zero exactly when main's execution
\* succeeded; after an error the status is nonzero and a diagnostic has been
\* printed.
C23_ExitStatus ==
    exit # NotExited
       => /\ exit.status = 0 <=> result.kind = "ok"
          /\ result.kind = "err" => exit.printed # << >>

\* The instruction at F.pc is an invokevirtual or invokespecial of println on
\* an object, with its arguments on the stack.
PrintlnCall ==
    /\ Op \in {INVOKEVIRTUAL, INVOKESPECIAL}
    /\ MethodResolves
    /\ Named.class = "java/io/PrintStream"
    /\ Named.name = "println"
    /\ Len(F.stack) >= Named.N + 1
    /\ F.stack[Len(F.stack) - Named.N].t = "Object"
\* Any invoke that names println.
NamesPrintln ==
    /\ Op \in {INVOKEVIRTUAL, INVOKESPECIAL, INVOKESTATIC}
    /\ MethodResolves
    /\ Named.name = "println"
\* The lines of the arguments, first argument first.
ArgumentLines ==
    [k \in 1..Named.N |-> println_line(F.stack[Len(F.stack) - Named.N + k])]

\* C24: effects happen at the step that executes their opcode and at no
\* other: a println call appends its lines to the end of the output at that
\* step, a putfield makes its one write at that step, and no other step
\* touches the output or a field; so the effects of a callee, whose steps lie
\* between the caller's invoke and the caller's next opcode, lie between the
\* caller's effects.
C24_EffectsInProgramOrder ==
    [][/\ ~InCode => stdout' = stdout
       /\ InCode =>
            /\ PrintlnCall => stdout' = stdout \o ArgumentLines
            /\ ~NamesPrintln => stdout' = stdout
            /\ Len(stdout') >= Len(stdout)
            /\ SubSeq(stdout', 1, Len(stdout)) = stdout
            /\ (Op = PUTFIELD /\ StillRunning)
                  => heap' = [heap EXCEPT
                                ![F.stack[Len(F.stack) - 1].i].fields =
                                   MapPut(@, FieldNamed, Top(F))]
            /\ Op = OP_NEW => SubSeq(heap', 1, Len(heap)) = heap
            /\ Op \notin {PUTFIELD, OP_NEW} => heap' = heap]_vars

\* main has printed 1, then h (called from g, called from main) 4, then g
\* 3, then main 2.
C24_Witness ==
    /\ result.kind = "ok"
    /\ stdout = << [s |-> "", digits |-> << "1" >>], [s |-> "", digits |-> << "4" >>],
                   [s |-> "", digits |-> << "3" >>], [s |-> "", digits |-> << "2" >>] >>

C26_LookupIsOneBased ==
    [][result'.kind = "lookup"
       => LET i == result'.args[1]
              pool == jvm.constant_pool
          IN  /\ jvm' = jvm
              /\ (result'.value # NoEntry) <=> (1 <= i /\ i <= Len(pool))
              /\ (1 <= i /\ i <= Len(pool))
                    => result'.value = Head(SubSeq(pool, i, i))]_vars

\* The lookup of the last index of a three-entry pool has returned its last
\* entry.
C26_Witness ==
    /\ result.kind = "lookup"
    /\ result.args = << 3 >>
    /\ jvm.constant_pool = << Utf8("a"), Classref(1), Stringref(2) >>
    /\ result.value = Stringref(2)

\* C27: once execute_method has set the registry up, no step changes it:
\* the registered classes, each class's method table and each static field's
\* binding stay what they were.
C27_RegistryIsFixed ==
    [][result.kind # "init" => runtime' = runtime]_vars

\* A run that wrote a field of the object System.out is bound to has ended,
\* System still registered.
C27_Witness ==
    /\ result.kind = "ok"
    /\ << StdoutHandle, "x" >> \in DOMAIN written
    /\ "java/lang/System" \in DOMAIN runtime
    /\ "out" \in DOMAIN runtime["java/lang/System"].fields

\* C28: frames are isolated.  No step of a running method changes a frame
\* below its own; a method that is entered starts on an empty operand stack,
\* and entering it takes values off the top of the caller's stack and touches
\* neither the rest of that stack nor the caller's locals; a method that
\* returns leaves its caller's locals alone and its caller's stack either as
\* it was or one value longer.
C28_FramesAreIsolated ==
    [][(result.kind = "running" /\ result'.kind = "running" /\ frames # << >>)
       => /\ \A k \in 1..(Len(frames) - 1) :
                k < Len(frames') => frames'[k] = frames[k]
          /\ Entered
                => /\ Callee.stack = << >>
                   /\ After.locals = F.locals
                   /\ Len(After.stack) <= Len(F.stack)
                   /\ After.stack = SubSeq(F.stack, 1, Len(After.stack))
          /\ Len(frames') = Len(frames) - 1
                => /\ frames'[Len(frames')].locals = frames[Len(frames')].locals
                   /\ \/ frames'[Len(frames')].stack = frames[Len(frames')].stack
                      \/ /\ Len(frames'[Len(frames')].stack)
                              = Len(frames[Len(frames')].stack) + 1
                         /\ Below(frames'[Len(frames')].stack, 1)
                              = frames[Len(frames')].stack]_vars

\* h, called from g, called from main, has stored 1 and 2 in its locals
\* and has 2 and 3 on its stack; g still has its 3 and main its 5 and its
\* local 4.
C28_Witness ==
    /\ Len(frames) = 3
    /\ frames[1].stack = << IntV(5) >>
    /\ frames[1].locals[2] = IntV(4)
    /\ frames[2].stack = << IntV(3) >>
    /\ frames[3].locals = << IntV(1), IntV(2) >>
    /\ frames[3].stack = << IntV(2), IntV(3) >>

\* ------------------------------------------------------------------------
\* C29: when the stream holds the 6-byte header of an attribute of a
\* recognised kind (Code, LineNumberTable, SourceFile, StackMapTable) and the
\* L bytes it declares, a decode of the attribute that succeeds has consumed
\* exactly 6 + L bytes, so that what follows is read from header end + L on.
\* ------------------------------------------------------------------------
DeclaredLength == file[5] * 256 + file[6]
Recognised ==
    /\ Len(file) >= 6
    /\ file[1] = 0
    /\ file[2] \in 1..4
    /\ file[3] = 0
    /\ file[4] = 0
    /\ Len(file) >= 6 + DeclaredLength
Consumed == result.args[1]

C29_ConsumesDeclaredLength ==
    Recognised /\ result.kind = "ok" => Consumed = 6 + DeclaredLength


\* ------------------------------------------------------------------------
\* C30: parse_class_file returns an error and no class record when the
\* first four bytes of the file are not 0xCAFEBABE, or when one of the
\* declared constant-pool entries has a tag outside {1, 7, 8, 9, 10, 12}
\* (5 and 6 among them); and when it succeeds for a declared count N >= 1
\* the pool it returns holds exactly N - 1 entries, the entries of the file
\* in the file's order.
\* ------------------------------------------------------------------------
Byte(o) == IF o >= 1 /\ o <= Len(file) THEN file[o] ELSE -1
Word(o) == Byte(o) * 256 + Byte(o + 1)
DeclaredCount == Word(9)
\* How many bytes the entry whose tag is the o-th byte takes in the file.
EntrySize(o) ==
    CASE Byte(o) \in {7, 8} -> 3
      [] Byte(o) \in {9, 10, 12} -> 5
      [] Byte(o) = 1 -> 3 + Word(o + 1)
      [] OTHER -> 0
\* Where the tag of the i-th entry is.
RECURSIVE EntryAt(_)
EntryAt(i) == IF i = 1 THEN 11 ELSE EntryAt(i - 1) + EntrySize(EntryAt(i - 1))
\* The i-th entry as the file gives it.
InFile(i) ==
    LET o == EntryAt(i)
    IN  CASE Byte(o) = 7 -> [tag |-> "Classref", a |-> Word(o + 1), b |-> 0, s |-> ""]
          [] Byte(o) = 8 -> [tag |-> "Stringref", a |-> Word(o + 1), b |-> 0, s |-> ""]
          [] Byte(o) = 10 ->
               [tag |-> "Methodref", a |-> Word(o + 1), b |-> Word(o + 3), s |-> ""]
          [] Byte(o) = 9 ->
               [tag |-> "Fieldref", a |-> Word(o + 1), b |-> Word(o + 3), s |-> ""]
          [] Byte(o) = 12 ->
               [tag |-> "NameAndType", a |-> Word(o + 1), b |-> Word(o + 3), s |-> ""]
          [] Byte(o) = 1 ->
               [tag |-> "Utf8", a |-> 0, b |-> 0,
                s |-> [k \in 1..Word(o + 1) |-> Byte(o + 2 + k)]]
          [] OTHER -> [tag |-> "None", a |-> 0, b |-> 0, s |-> ""]
BadMagic == Len(file) >= 4 /\ SubSeq(file, 1, 4) # << 202, 254, 186, 190 >>
BadTag ==
    /\ ~BadMagic
    /\ DeclaredCount >= 1
    /\ \E i \in 1..(DeclaredCount - 1) :
          /\ Byte(EntryAt(i)) >= 0
          /\ Byte(EntryAt(i)) \notin {1, 7, 8, 9, 10, 12}
Parsed == result.kind # "init"

C30_ParseRejectsOrCounts ==
    Parsed =>
        /\ BadMagic \/ BadTag => result.kind = "err" /\ result.value = << >>
        /\ result.kind = "ok" /\ DeclaredCount >= 1
              => /\ Len(result.value.constant_pool) = DeclaredCount - 1
                 /\ \A i \in 1..(DeclaredCount - 1) :
                       result.value.constant_pool[i] = InFile(i)

C30_Witness ==
    /\ result.kind = "ok"
    /\ DeclaredCount = 3
    /\ Len(result.value.constant_pool) = 2
    /\ result.value.constant_pool[1].tag = "Utf8"
    /\ result.value.constant_pool[1].s = NameCode
    /\ result.value.constant_pool[2].tag = "Methodref"
    /\ Len(result.value.methods) = 1
    /\ result.value.methods[1].attributes # << >>

\* ------------------------------------------------------------------------
\* C31: parse_method_descriptor on the text '(' d1 ... dN ')' r returns a
\* parameter list of exactly N entries, the i-th being di (an array or an
\* object descriptor is one entry), and the return type r; a text that holds
\* an array of void, and a text that does not start with '(', is an error.
\* ------------------------------------------------------------------------
C31_DescriptorParses ==
    result.kind # "init" =>
        /\ file.form = "well-formed" =>
              /\ result.kind = "ok"
              /\ Len(result.value.parameters) = Len(file.parameters)
              /\ result.value.parameters = file.parameters
              /\ result.value.return_type = file.return_type
        /\ file.form \in { "array of void", "no open paren" } =>
              result.kind = "err"

C31_Witness ==
    /\ result.kind = "ok"
    /\ file.text = << "(", "[", "[", "J", "L", "a", "/", "B", ";", ")", "V" >>
    /\ result.value.parameters
          = << << "Array", << "Array", << "Long" >> >> >>,
               << "Object", << "a", "/", "B" >> >> >>
    /\ result.value.return_type = << "Void" >>

\* ------------------------------------------------------------------------
\* C32: the Loop scenario terminates and prints exactly 45: its run comes to
\* the state where execute_method has returned Ok and the output is the one
\* line 45, and stays there.
\* ------------------------------------------------------------------------
Printed45 ==
    /\ result.kind = "ok"
    /\ frames = << >>
    /\ stdout = << [s |-> "", digits |-> << "4", "5" >>] >>

C32_LoopPrints45 == (jvm = LoopClass) => <>[]Printed45

C32_Witness == jvm = LoopClass /\ Printed45 /\ last.op = RETURN

\* ------------------------------------------------------------------------
\* C33: the frame execute_method makes for the named method has an empty
\* operand stack and max_locals local slots, all Void; and a frame's locals
\* keep their length in every step from the frame's entry to its return: no
\* opcode, call or return makes the locals of a frame that stays longer or
\* shorter.
\* ------------------------------------------------------------------------
TopLevelFrameIsFresh ==
    (result.kind = "init" /\ result'.kind = "running")
        => /\ Len(frames') = 1
           /\ frames'[1].stack = << >>
           /\ Len(frames'[1].locals) = jvm.methods[frames'[1].method].max_locals
           /\ \A k \in 1..Len(frames'[1].locals) : frames'[1].locals[k] = VoidV

LocalsKeepLength ==
    \A k \in 1..Len(frames) :
        k <= Len(frames') => Len(frames'[k].locals) = Len(frames[k].locals)

C33_LocalsLength == [][TopLevelFrameIsFresh /\ LocalsKeepLength]_vars

\* A store has written a slot of the top-level frame, whose locals are
\* still max_locals long.
C33_Witness ==
    /\ Len(frames) = 1
    /\ last.op \in {ISTORE, ISTORE0, ISTORE1, ISTORE2, ISTORE3, ASTORE1}
    /\ last.pc < frames[1].pc
    /\ Len(frames[1].locals) = jvm.methods[frames[1].method].max_locals
    /\ \E k \in 1..Len(frames[1].locals) : frames[1].locals[k] # VoidV

\* ------------------------------------------------------------------------
\* C34: decoded from an offset inside the blob, a run gives its values in
\* order, one for each leading byte of 0x07 or more: the (v & 7) + 1 bytes
\* after it read as one big-endian unsigned integer; the run ends at the
\* first leading byte below 0x07 or at the end of the blob, and the decoder
\* returns for every blob and offset.
\* ------------------------------------------------------------------------
\* Where the items of the run start: the offset, and after an item that
\* starts at p with v >= 7 the offset p + 1 + (v & 7) + 1.
ItemLength(p) == (file.locations[p + 1] % 8) + 1
ItemAt(p) == p < Len(file.locations) /\ file.locations[p + 1] >= 7

RECURSIVE ItemStarts(_)
ItemStarts(p) ==
    IF ItemAt(p) THEN << p >> \o ItemStarts(p + 1 + ItemLength(p)) ELSE << >>

\* The big-endian unsigned integer of the bytes after the leading byte at
\* p, as the eight bytes of a u64.
BigEndian(p) ==
    [k \in 1..8 |->
        IF k > 8 - ItemLength(p) /\ p + 1 + (k - (8 - ItemLength(p))) <= Len(file.locations)
        THEN file.locations[p + 1 + (k - (8 - ItemLength(p)))]
        ELSE 0]

RunValues == [j \in 1..Len(ItemStarts(file.offset)) |->
                BigEndian(ItemStarts(file.offset)[j])]

\* The blob holds every byte of every item of the run.
RunIsWhole ==
    \A j \in 1..Len(ItemStarts(file.offset)) :
        ItemStarts(file.offset)[j] + ItemLength(ItemStarts(file.offset)[j])
            < Len(file.locations)

Decoded == result # NoResult /\ file.offset < Len(file.locations)

C34_DecodesRun ==
    Decoded => result.kind = "ok" /\ result.value = RunValues

\* What the decoder does do: a run the blob holds whole is returned value
\* by value, and a run whose last item is cut short by the end of the blob
\* aborts the process.
DecodesWholeRuns ==
    Decoded => IF RunIsWhole THEN result.kind = "ok" /\ result.value = RunValues
               ELSE result.kind = "panic"

\* A value of eight bytes has been decoded after a value of one byte.
WholeRunDecoded ==
    /\ result.kind = "ok"
    /\ file.offset = 0
    /\ result.value = << << 0, 0, 0, 0, 0, 0, 0, 1 >>, << 1, 2, 3, 4, 5, 6, 7, 8 >> >>

\* ------------------------------------------------------------------------
\* C35: iload, iload_0..3, aload_0 or aload_1 of a local slot that still
\* holds the Void it was created with ends the invocation with an error,
\* and does not push Void on the operand stack.
\* ------------------------------------------------------------------------
LoadOpcodes == {ILOAD, ILOAD0, ILOAD1, ILOAD2, ILOAD3, ALOAD0, ALOAD1}

\* The slot the load at pc reads.
LoadSlot ==
    CASE Op = ILOAD -> CodeAt(F.pc + 1)
      [] Op \in {ILOAD0, ILOAD1, ILOAD2, ILOAD3} -> Op - ILOAD0
      [] Op \in {ALOAD0, ALOAD1} -> Op - ALOAD0

LoadOfVoid ==
    /\ InCode
    /\ Op \in LoadOpcodes
    /\ Op = ILOAD => HasByte(F.pc + 1)
    /\ HasLocal(F, LoadSlot)
    /\ Local(F, LoadSlot) = VoidV

C35_VoidLoadFails == [][LoadOfVoid => result'.kind = "err"]_vars

\* ------------------------------------------------------------------------
\* C36: of the methods of a class that share a name, the one execute_method
\* starts for that name and the one an invoke opcode dispatches to for that
\* name are the same method.
\* ------------------------------------------------------------------------
MethodName(i) ==
    lookup_utf8_constant(jvm.constant_pool, jvm.methods[i].name_index).s

C36_OneMethodPerName ==
    \A j, k \in 1..Len(frames) :
        /\ frames[j].via = "execute_method"
        /\ frames[k].via # "execute_method"
        /\ MethodName(frames[j].method) = MethodName(frames[k].method)
        => frames[j].method = frames[k].method

\* ------------------------------------------------------------------------
\* C37: the interpreter reads no code byte at an index of the code length
\* or more: an opcode whose operand bytes would lie past the end of the
\* code ends the execution with an error result.
\* ------------------------------------------------------------------------
\* The operand bytes after the opcode (tableswitch, whose operands vary in
\* number, is left to its own table).
OperandBytes(op) ==
    CASE op \in {PUSHBYTE, PUSHRUNTIMECONSTANT, ILOAD, ISTORE} -> 1
      [] op \in {IINC, IFICOMPAREGREATEREQUAL, GOTO, OP_NEW, GETFIELD, PUTFIELD,
                 GETSTATIC, INVOKEVIRTUAL, INVOKESPECIAL, INVOKESTATIC} -> 2
      [] OTHER -> 0

OperandsPastEnd == InCode /\ ~HasByte(F.pc + OperandBytes(Op))

C37_OperandsPastEndFail == [][OperandsPastEnd => result'.kind = "err"]_vars

\* ------------------------------------------------------------------------
\* C38: a method whose code holds no goto, if_icmpge, tableswitch and no
\* invoke opcode terminates: every opcode it executes moves pc forward by
\* the length of its instruction (1, 2 or 3), so the method returns or
\* fails.
\* ------------------------------------------------------------------------
Transfers == {GOTO, IFICOMPAREGREATEREQUAL, TABLESWITCH,
              INVOKEVIRTUAL, INVOKESPECIAL, INVOKESTATIC}

StraightLine ==
    \A m \in 1..Len(jvm.methods) :
        \A i \in 1..Len(jvm.methods[m].code) :
            jvm.methods[m].code[i] \notin Transfers

InstructionLength(op) == 1 + OperandBytes(op)

PcMovesForward ==
    (StraightLine /\ InCode /\ result'.kind = "running")
        => /\ Len(frames') = Len(frames)
           /\ frames'[Len(frames)].pc = F.pc + InstructionLength(Op)
           /\ InstructionLength(Op) \in 1..3

Ended == result.kind \in {"ok", "err", "panic"}

C38_StraightLineTerminates ==
    /\ [][PcMovesForward]_vars
    /\ StraightLine => <>[]Ended

\* A method without transfers has run six bytes of instructions of length
\* 1 and 2 and has returned from its last byte.
C38_Witness ==
    /\ StraightLine
    /\ result.kind = "ok"
    /\ last.op = IRETURN
    /\ last.pc = Len(jvm.methods[1].code) - 1
    /\ last.pc >= 6

\* ------------------------------------------------------------------------
\* C39: invokespecial leaves the caller's operand stack as it was before
\* the call less the N parameters and the receiver, whatever the callee
\* returns: a value that is not Void, returned by a native or by ireturn,
\* is dropped and never pushed.  Stated over the steps of a call: entering
\* the callee takes the N + 1 values and nothing else, a native does it and
\* adds 3 to pc in one step, and the return of a callee adds 3 to the
\* caller's pc and leaves the rest of its frame as it was.
\* ------------------------------------------------------------------------
C39_InvokeSpecialDropsValue ==
    [][/\ (About(INVOKESPECIAL) /\ Entered)
             => After = [F EXCEPT !.stack = Below(@, Named.N + 1)]
       /\ (About(INVOKESPECIAL) /\ StillRunning /\ ~Entered)
             => After = [F EXCEPT !.stack = Below(@, Named.N + 1), !.pc = @ + 3]
       /\ (Completes /\ CallerOp = INVOKESPECIAL)
             => frames'[Len(frames')] = [Caller EXCEPT !.pc = @ + 3]]_vars

\* Main.f(II)I, entered by the invokespecial at 8 with an object, 11 and 22
\* above an Int(5), has returned 11 by ireturn, and main's stack holds the
\* Int(5) alone.
C39_Witness ==
    /\ Len(frames) = 1
    /\ Running
    /\ last.op = IRETURN
    /\ last.depth = 2
    /\ F.pc = 11
    /\ CodeAt(8) = INVOKESPECIAL
    /\ F.stack = << IntV(5) >>

=============================================================================
